---------------------------- MODULE Spec2Model ----------------------------
(***************************************************************************)
(* Entity simulation of the runner: the LevelManager frame (advance,       *)
(* alien fire, collision, removal, spawning, commit), its status/level     *)
(* effect, and the Player controller (lane, jump physics, invincibility).  *)
(*                                                                         *)
(* Numbers.  The code computes in IEEE doubles; the model computes in      *)
(* fixed point.  Time is in milliseconds.  Positions (x, y, z) are in      *)
(* milli-units (U = one world unit) and velocities in milli-units per      *)
(* second, so  position += velocity * delta  is  velocity * delta / 1000.  *)
(* The frame deltas of the model are multiples of 20 ms, for which the     *)
(* jump integration and the scroll distance are exact; only the horizontal *)
(* lerp rounds (toward zero, below a thousandth of a unit).                *)
(***************************************************************************)
EXTENDS Integers, Sequences, FiniteSets, TLC

\* One world unit in milli-units, and one unit/second in milli-units/second.
U == 10 * 100
V == 10 * 100

----------------------------------------------------------------------------
(* Program constants *)

GRAVITY == 50
JUMP_FORCE == 16
BASE_LETTER_INTERVAL == 150
MISSILE_SPEED == 25
\* Math.min(delta, 0.05) of the LevelManager frame, in ms
SAFE_DELTA_MS == 50
\* Date.now() - lastDamageTime > 1500
INVINCIBLE_MS == 1500
\* const zThreshold = 2.0
zThreshold == 2 * U
\* Math.abs(obj.position[2] - playerPos.z) < 2
PORTAL_RADIUS == 2 * U
\* dx < 0.8
LANE_HIT == (8 * U) \div 10
\* dy < 2.5
COLLECT_DY == (25 * U) \div 10
\* playerTop = playerPos.y + 1.5, and the snowman's height
PLAYER_HEIGHT == (15 * U) \div 10
OBSTACLE_TOP == (15 * U) \div 10
\* objBottom = y - 0.5, objTop = y + 0.5
HALF_BAND == (5 * U) \div 10
\* obj.position[2] > -90
ALIEN_FIRE_Z == -90 * U
\* level-up effect: position[2] > -80 is kept, the portal goes to -100
LEVELUP_CUTOFF_Z == -80 * U
PORTAL_SPAWN_Z == -100 * U
\* let furthestZ = -20
DEFAULT_FURTHEST_Z == -20 * U
\* the six target letters ['G','E','M','I','N','I']
TARGET_LEN == 6

\* Constants of types.ts, which is not among the sources.  The spec names
\* SPAWN_DISTANCE = 60 in its spawn scenario; it gives no number for the
\* lane width and the removal threshold, which are taken as 2.2 and 20.
SPAWN_DISTANCE == 60 * U
REMOVE_DISTANCE == 20 * U
LANE_WIDTH == (22 * U) \div 10

----------------------------------------------------------------------------
(* Bounds of the model *)

MaxFrames == 3
MaxInputs == 1
MaxLevel == 2
\* Frames after a stall (a delta far above the clamp) in one run
MaxStalls == 1
\* The player-controller runs: frames, inputs
MaxPlayerFrames == 3
MaxPlayerInputs == 4
\* The spawning runs: frames
MaxSpawnFrames == 2
\* The lifecycle runs: frames, inputs (level-ups count as inputs)
MaxLifeFrames == 1
MaxLifeInputs == 1
\* The runs without a player reference: frames, inputs
MaxAttachFrames == 2
MaxAttachInputs == 1
MaxCullFrames == 2
MaxJumpFrames == 3
MaxJumpInputs == 2

\* Frame deltas in ms: a 50 Hz frame and a slow frame above the clamp
Deltas == {20, 60}
\* The delta of a frame after a stall
StallDelta == 80 * 20

\* Lanes of the entities of the initial store
InitLanes == {0}

\* The scroll speed of the store, in milli-units per second
InitSpeed == 20 * V

\* Distance traveled at the snapshot
InitDistance == 100 * U

ObjectTypes == {"OBSTACLE", "GEM", "LETTER", "SHOP_PORTAL", "ALIEN", "MISSILE"}
GameStatuses == {"MENU", "PLAYING", "SHOP", "GAME_OVER", "VICTORY"}

----------------------------------------------------------------------------
(* Arithmetic helpers *)

Abs(a) == IF a < 0 THEN -a ELSE a
Min(a, b) == IF a <= b THEN a ELSE b
Max(a, b) == IF a >= b THEN a ELSE b

\* Division rounding toward zero (the fixed-point image of a double product).
TruncDiv(a, b) == IF a >= 0 THEN a \div b ELSE -((-a) \div b)

\* Math.floor(laneCount / 2)
MaxLane(lc) == lc \div 2

\* BASE_LETTER_INTERVAL * Math.pow(1.5, Math.max(0, level - 1)), in micro-units
RECURSIVE Pow15(_, _)
Pow15(base, n) == IF n <= 0 THEN base ELSE Pow15((base * 3) \div 2, n - 1)

\* Mutant: the interval does not grow with the level
getLetterInterval_Flat(lvl) == BASE_LETTER_INTERVAL * U

getLetterInterval(lvl) == Pow15(BASE_LETTER_INTERVAL * U, Max(0, lvl - 1))

----------------------------------------------------------------------------
VARIABLES
    \* state collaborator (store)
    status, level, laneCount, speed, collectedLetters, hasDoubleJump,
    isImmortalityActive,
    \* LevelManager refs
    objects, prevStatus, prevLevel, distanceTraveled, nextLetterDistance,
    playerAttached,
    \* Player state and refs
    lane, posX, posY, isJumping, velocityY, jumpsPerformed, isInvincible,
    lastDamageTime,
    \* environment: Date.now() in ms, the next fresh entity id (uuidv4), and
    \* the numbers of frames run and of inputs and store changes made
    \* (limits: how many of each the run may make)
    now, nextId, frameCount, inputCount, stallCount, limits,
    \* observation of the run: the last operation, the notifications it
    \* emitted, what its Spawning Logic saw and drew, the time of the latest
    \* takeDamage() call (-1: none), and per entity id the numbers of
    \* notifications and of deactivations so far
    lastOp, events, spawnInfo, lastTakeDamage, notifyCount, deactCount

storeVars == <<status, level, laneCount, speed, collectedLetters,
               hasDoubleJump, isImmortalityActive>>
levelVars == <<objects, prevStatus, prevLevel, distanceTraveled,
               nextLetterDistance, playerAttached>>
playerVars == <<lane, posX, posY, isJumping, velocityY, jumpsPerformed,
                isInvincible, lastDamageTime>>
envVars == <<now, nextId, frameCount, inputCount, stallCount, limits>>
obsVars == <<lastOp, events, spawnInfo, lastTakeDamage, notifyCount, deactCount>>
vars == <<storeVars, levelVars, playerVars, envVars, obsVars>>


----------------------------------------------------------------------------
(* Player controller (Player.tsx).  A player is the record of the          *)
(* component's state and refs; groupRef.current.position is (posX, posY).  *)

ThePlayer ==
    [lane |-> lane, posX |-> posX, posY |-> posY, isJumping |-> isJumping,
     velocityY |-> velocityY, jumpsPerformed |-> jumpsPerformed,
     isInvincible |-> isInvincible, lastDamageTime |-> lastDamageTime]

SetPlayer(p) ==
    /\ lane' = p.lane
    /\ posX' = p.posX
    /\ posY' = p.posY
    /\ isJumping' = p.isJumping
    /\ velocityY' = p.velocityY
    /\ jumpsPerformed' = p.jumpsPerformed
    /\ isInvincible' = p.isInvincible
    /\ lastDamageTime' = p.lastDamageTime

\* The state after mount: useState(0), useRef(false), useRef(0), ...
InitialPlayer ==
    [lane |-> 0, posX |-> 0, posY |-> 0, isJumping |-> FALSE,
     velocityY |-> 0, jumpsPerformed |-> 0, isInvincible |-> FALSE,
     lastDamageTime |-> 0]

SetPlayer0 ==
    /\ lane = InitialPlayer.lane
    /\ posX = InitialPlayer.posX
    /\ posY = InitialPlayer.posY
    /\ isJumping = InitialPlayer.isJumping
    /\ velocityY = InitialPlayer.velocityY
    /\ jumpsPerformed = InitialPlayer.jumpsPerformed
    /\ isInvincible = InitialPlayer.isInvincible
    /\ lastDamageTime = InitialPlayer.lastDamageTime

\* setLane(l => Math.max(Math.min(l, maxLane), -maxLane)) when |lane| > maxLane
ClampLane(l, lc) ==
    IF Abs(l) > MaxLane(lc) THEN Max(Min(l, MaxLane(lc)), -MaxLane(lc)) ELSE l

\* setLane(l => Math.max(l - 1, -maxLane)), then the lane clamp effect
MoveLeft(p, lc) == [p EXCEPT !.lane = ClampLane(Max(p.lane - 1, -MaxLane(lc)), lc)]

\* Mutant: the right move is not clamped
MoveRight_NoClamp(p, lc) == [p EXCEPT !.lane = p.lane + 1]

\* setLane(l => Math.min(l + 1, maxLane)), then the lane clamp effect
MoveRight(p, lc) == [p EXCEPT !.lane = ClampLane(Min(p.lane + 1, MaxLane(lc)), lc)]

\* Mutant: two jumps are allowed without the upgrade
MaxJumps_AlwaysTwo(dj) == 2

\* const maxJumps = hasDoubleJump ? 2 : 1
MaxJumps(dj) == IF dj THEN 2 ELSE 1

\* Mutant: a jump is accepted in the air however many were performed
triggerJump_Unlimited(p, dj) ==
    [p EXCEPT !.isJumping = TRUE, !.jumpsPerformed = p.jumpsPerformed + 1,
              !.velocityY = JUMP_FORCE * V]

triggerJump(p, dj) ==
    IF ~p.isJumping
    THEN [p EXCEPT !.isJumping = TRUE, !.jumpsPerformed = 1,
                   !.velocityY = JUMP_FORCE * V]
    ELSE IF p.jumpsPerformed < MaxJumps(dj)
         THEN [p EXCEPT !.jumpsPerformed = p.jumpsPerformed + 1,
                        !.velocityY = JUMP_FORCE * V]
         ELSE p

\* THREE.MathUtils.lerp(x, target, delta * 12), delta in ms
LerpX(x, target, delta) == x + TruncDiv((target - x) * delta * 3, 250)

\* Mutant: landing keeps the height and the jump count
JumpPhysics_NoLandingReset(p, delta) ==
    IF ~p.isJumping THEN p
    ELSE LET y == p.posY + TruncDiv(p.velocityY * delta, 1000)
             v == p.velocityY - GRAVITY * delta
         IN  IF y <= 0
             THEN [p EXCEPT !.posY = y, !.isJumping = FALSE, !.velocityY = 0]
             ELSE [p EXCEPT !.posY = y, !.velocityY = v]

\* 2. Physics (Jump): integrates with the raw frame delta
JumpPhysics(p, delta) ==
    IF ~p.isJumping THEN p
    ELSE LET y == p.posY + TruncDiv(p.velocityY * delta, 1000)
             v == p.velocityY - GRAVITY * delta
         IN  IF y <= 0
             THEN [p EXCEPT !.posY = 0, !.isJumping = FALSE,
                            !.jumpsPerformed = 0, !.velocityY = 0]
             ELSE [p EXCEPT !.posY = y, !.velocityY = v]

\* Mutant: the flag is cleared by every frame
ExpireInvincible_EveryFrame(p, t) == [p EXCEPT !.isInvincible = FALSE]

\* Invincibility visual: the flag is cleared once more than 1500 ms passed
ExpireInvincible(p, t) ==
    IF p.isInvincible /\ t - p.lastDamageTime > INVINCIBLE_MS
    THEN [p EXCEPT !.isInvincible = FALSE]
    ELSE p

\* Player useFrame at Date.now() = t with frame delta `delta`
PlayerFrame(p, delta, t, st) ==
    IF st # "PLAYING" /\ st # "SHOP" THEN p
    ELSE LET p1 == [p EXCEPT !.posX = LerpX(p.posX, p.lane * LANE_WIDTH, delta)]
             p2 == JumpPhysics(p1, delta)
         IN  ExpireInvincible(p2, t)

\* Mutant: the listener does not test isInvincible
HitApplies_IgnoresInvincible(p, immortal) == ~immortal

\* checkHit, the 'player-hit' listener: TRUE when takeDamage() is called
HitApplies(p, immortal) == ~(p.isInvincible \/ immortal)

\* Mutant: the listener does not start the invincibility window
checkHit_NoWindow(p, t, immortal) == p

checkHit(p, t, immortal) ==
    IF HitApplies(p, immortal)
    THEN [p EXCEPT !.isInvincible = TRUE, !.lastDamageTime = t]
    ELSE p

\* Reset State on Game Start: the effect on [status]
ResetPlayer(p, st) ==
    IF st = "PLAYING"
    THEN [p EXCEPT !.isJumping = FALSE, !.jumpsPerformed = 0,
                   !.velocityY = 0, !.posY = 0]
    ELSE p

----------------------------------------------------------------------------
(* LevelManager (LevelManager.tsx).  A GameObject is a record; an absent   *)
(* targetIndex is -1 and absent points are 0.                              *)

GameObject(i, t, x, y, z) ==
    [id |-> i, type |-> t, x |-> x, y |-> y, z |-> z, active |-> TRUE,
     hasFired |-> FALSE, targetIndex |-> -1, points |-> 0]

Note(k, i, a) == [kind |-> k, id |-> i, arg |-> a]

\* getRandomLane(laneCount): the lanes Math.random() can select
RandomLanes(lc) == (-MaxLane(lc)) .. MaxLane(lc)

\* playerObjRef.current.getWorldPosition(playerPos); (0, 0, 0) when the
\* player object is not attached
PlayerPos(p, attached) ==
    IF attached THEN [x |-> p.posX, y |-> p.posY, z |-> 0]
    ELSE [x |-> 0, y |-> 0, z |-> 0]

\* const safeDelta = Math.min(delta, 0.05)
SafeDelta(delta) == Min(delta, SAFE_DELTA_MS)

\* const dist = speed * safeDelta  (speed in milli-units per second)
\* Mutant: the world does not scroll
FrameDist_Zero(spd, delta) == 0

\* const dist = speed * safeDelta
FrameDist(spd, delta) == TruncDiv(spd * SafeDelta(delta), 1000)

\* Mutant: entities move away from the player
MoveAmount_Backward(o, spd, delta) == -FrameDist(spd, delta)

\* let moveAmount = dist; if MISSILE, += MISSILE_SPEED * safeDelta
MoveAmount(o, spd, delta) ==
    FrameDist(spd, delta)
        + (IF o.type = "MISSILE"
              THEN TruncDiv(MISSILE_SPEED * V * SafeDelta(delta), 1000) ELSE 0)

\* Mutant: the hasFired latch is not read
AlienFires_IgnoresHasFired(o, z1) ==
    o.type = "ALIEN" /\ o.active /\ z1 > ALIEN_FIRE_Z

\* Alien Shoot Logic: the condition under which the alien fires this frame
AlienFires(o, z1) ==
    o.type = "ALIEN" /\ o.active /\ ~o.hasFired /\ z1 > ALIEN_FIRE_Z

\* Mutant: only the position after the advance is tested against the zone
inZZone_EndOnly(prevZ, z1, pp) ==
    (z1 < pp.z + zThreshold) /\ (z1 > pp.z - zThreshold)

\* const inZZone = (prevZ < playerPos.z + zThreshold) && (z > playerPos.z - zThreshold)
inZZone(prevZ, z1, pp) ==
    (prevZ < pp.z + zThreshold) /\ (z1 > pp.z - zThreshold)

PortalReached(z1, pp) == Abs(z1 - pp.z) < PORTAL_RADIUS

InLane(o, pp) == Abs(o.x - pp.x) < LANE_HIT

isDamageSource(o) == o.type \in {"OBSTACLE", "ALIEN", "MISSILE"}

objBottom(o) == IF o.type = "OBSTACLE" THEN 0 ELSE o.y - HALF_BAND
objTop(o) == IF o.type = "OBSTACLE" THEN OBSTACLE_TOP ELSE o.y + HALF_BAND

isHit(o, pp) == (pp.y < objTop(o)) /\ (pp.y + PLAYER_HEIGHT > objBottom(o))

InCollectRange(o, pp) == Abs(o.y - pp.y) < COLLECT_DY

\* Mutant: the portal only triggers in the player's lane
PortalTriggers_NeedsLane(o, z1, pp) ==
    o.active /\ o.type = "SHOP_PORTAL" /\ PortalReached(z1, pp) /\ InLane(o, pp)

\* if (obj.active) { if (SHOP_PORTAL) { if (|z - playerPos.z| < 2) ...
PortalTriggers(o, z1, pp) ==
    o.active /\ o.type = "SHOP_PORTAL" /\ PortalReached(z1, pp)

\* Mutant: the collision block does not test obj.active
Candidate_IgnoresActive(o, prevZ, z1, pp) ==
    o.type # "SHOP_PORTAL" /\ inZZone(prevZ, z1, pp) /\ InLane(o, pp)

\* if (obj.active) { ... else if (inZZone) { if (dx < 0.8) ...
Candidate(o, prevZ, z1, pp) ==
    o.active /\ o.type # "SHOP_PORTAL" /\ inZZone(prevZ, z1, pp) /\ InLane(o, pp)

\* The notifications of a collected item, in the order the code emits them
CollectNotes(o) ==
    (IF o.type = "GEM"
        THEN <<Note("collectGem", o.id, IF o.points = 0 THEN 50 ELSE o.points)>>
        ELSE <<>>)
    \o (IF o.type = "LETTER" /\ o.targetIndex # -1
        THEN <<Note("collectLetter", o.id, o.targetIndex)>>
        ELSE <<>>)
    \o <<Note("particle-burst", o.id, 0)>>

\* One iteration of  for (const obj of currentObjects)  on accumulator a:
\*   mutated  every object as left by the loop (mutated in place)
\*   kept     keptObjects
\*   spawns   newSpawns
\*   notes    notifications emitted so far in this frame
\*   p        the player (checkHit runs synchronously inside dispatchEvent)
\*   nid      the next fresh id
\*   changes  hasChanges
\* Mutant: only active entities are culled
PastRemoveDistance_OnlyActive(o, z1) == o.active /\ z1 > REMOVE_DISTANCE

\* if (obj.position[2] > REMOVE_DISTANCE) { keep = false; hasChanges = true; }
PastRemoveDistance(o, z1) == z1 > REMOVE_DISTANCE

\* Mutant: a removal does not flag a change
hasChanges_NotOnRemoval(before, fires, portal, hit, collect, removed) ==
    before \/ fires \/ portal \/ hit \/ collect

\* hasChanges = true, in each branch of the loop that creates, deactivates
\* or drops an entity
hasChanges(before, fires, portal, hit, collect, removed) ==
    before \/ fires \/ portal \/ hit \/ collect \/ removed

StepObject(a, o, spd, delta, pp, t, immortal) ==
    LET prevZ == o.z
        z1 == o.z + MoveAmount(o, spd, delta)
        fires == AlienFires(o, z1)
        missile == GameObject(a.nid, "MISSILE", o.x, U, z1 + 2 * U)
        portal == PortalTriggers(o, z1, pp)
        candidate == Candidate(o, prevZ, z1, pp)
        hit == candidate /\ isDamageSource(o) /\ isHit(o, pp)
        collect == candidate /\ ~isDamageSource(o) /\ InCollectRange(o, pp)
        damage == hit /\ HitApplies(a.p, immortal)
        removed == PastRemoveDistance(o, z1)
        o1 == [o EXCEPT !.z = z1,
                        !.hasFired = o.hasFired \/ fires,
                        !.active = o.active /\ ~(portal \/ hit \/ collect)]
        keep == ~portal /\ ~removed
        out == IF portal THEN <<Note("openShop", o.id, 0)>>
               ELSE IF hit
                    THEN <<Note("player-hit", o.id, 0)>>
                         \o (IF damage THEN <<Note("takeDamage", o.id, 0)>>
                                       ELSE <<>>)
                         \o <<Note("particle-burst", o.id, 0)>>
               ELSE IF collect THEN CollectNotes(o)
               ELSE <<>>
    IN  [mutated |-> Append(a.mutated, o1),
         kept    |-> IF keep THEN Append(a.kept, o1) ELSE a.kept,
         spawns  |-> IF fires THEN Append(a.spawns, missile) ELSE a.spawns,
         notes   |-> a.notes \o out,
         p       |-> IF hit THEN checkHit(a.p, t, immortal) ELSE a.p,
         nid     |-> IF fires THEN a.nid + 1 ELSE a.nid,
         changes |-> hasChanges(a.changes, fires, portal, hit, collect, removed)]

RECURSIVE StepObjects(_, _, _, _, _, _, _, _)
StepObjects(a, objs, i, spd, delta, pp, t, immortal) ==
    IF i > Len(objs) THEN a
    ELSE StepObjects(StepObject(a, objs[i], spd, delta, pp, t, immortal),
                     objs, i + 1, spd, delta, pp, t, immortal)

\* Mutant: the new missiles are put in front of the kept entities
EntityLoop_SpawnsFirst(objs, p, nid, spd, delta, pp, t, immortal) ==
    LET a0 == [mutated |-> <<>>, kept |-> <<>>, spawns |-> <<>>,
               notes |-> <<>>, p |-> p, nid |-> nid, changes |-> FALSE]
        a == StepObjects(a0, objs, 1, spd, delta, pp, t, immortal)
    IN  [a EXCEPT !.kept = a.spawns \o a.kept]

\* The entity loop, then  if (newSpawns.length > 0) keptObjects.push(...newSpawns)
EntityLoop(objs, p, nid, spd, delta, pp, t, immortal) ==
    LET a0 == [mutated |-> <<>>, kept |-> <<>>, spawns |-> <<>>,
               notes |-> <<>>, p |-> p, nid |-> nid, changes |-> FALSE]
        a == StepObjects(a0, objs, 1, spd, delta, pp, t, immortal)
    IN  [a EXCEPT !.kept = a.kept \o a.spawns]

----------------------------------------------------------------------------
(* Spawning Logic *)

RECURSIVE SeqMinZ(_, _, _)
SeqMinZ(objs, i, m) ==
    IF i > Len(objs) THEN m ELSE SeqMinZ(objs, i + 1, Min(m, objs[i].z))

\* const staticObjects = keptObjects.filter(o => o.type !== MISSILE)
staticObjects(objs) == SelectSeq(objs, LAMBDA o : o.type # "MISSILE")

\* Mutant: the minimum is taken over every entity, missiles included
furthestZ_CountsMissiles(objs) ==
    IF Len(objs) > 0 THEN SeqMinZ(objs, 2, objs[1].z) ELSE DEFAULT_FURTHEST_Z

\* let furthestZ = -20; if (staticObjects.length > 0) furthestZ = Math.min(...)
furthestZ(objs) ==
    LET st == staticObjects(objs)
    IN  IF Len(st) > 0 THEN SeqMinZ(st, 2, st[1].z) ELSE DEFAULT_FURTHEST_Z

\* if (furthestZ > -SPAWN_DISTANCE)
SpawnOpen(objs) == furthestZ(objs) > -SPAWN_DISTANCE

\* const minGap = 12 + (speed * 0.4)
minGap(spd) == 12 * U + TruncDiv(spd * 4, 10)

\* Mutant: the spawn coordinate is not held at the spawn boundary
spawnZ_NoBoundary(objs, spd) == furthestZ(objs) - minGap(spd)

\* const spawnZ = Math.min(furthestZ - minGap, -SPAWN_DISTANCE)
spawnZ(objs, spd) == Min(furthestZ(objs) - minGap(spd), -SPAWN_DISTANCE)

\* target.map((_, i) => i).filter(i => !collectedLetters.includes(i)), ascending
RECURSIVE AvailableFrom(_, _)
AvailableFrom(i, collected) ==
    IF i >= TARGET_LEN THEN <<>>
    ELSE (IF i \in collected THEN <<>> ELSE <<i>>) \o AvailableFrom(i + 1, collected)

\* Mutant: the filter on collectedLetters is dropped
availableIndices_IgnoresCollected(collected) == AvailableFrom(0, {})

availableIndices(collected) == AvailableFrom(0, collected)

\* What Math.random() decides in one frame:
\*   spawn     Math.random() > 0.1
\*   obstacle  Math.random() > 0.25
\*   alien     Math.random() < 0.2
\*   gem       Math.random() < 0.3
\*   lane      getRandomLane(laneCount)
\*   pick      Math.floor(Math.random() * availableIndices.length) + 1, taken
\*             modulo the length
Draw(sp, ob, al, gm, ln, pk) ==
    [spawn |-> sp, obstacle |-> ob, alien |-> al, gem |-> gm, lane |-> ln,
     pick |-> pk]

\* The draws that lead to different outcomes for the store `kept` the
\* Spawning Logic sees (a draw no branch reads is fixed)
SpawnDraws(kept, lc, lvl, collected, dt, nld) ==
    IF ~SpawnOpen(kept) THEN {Draw(FALSE, FALSE, FALSE, FALSE, 0, 1)}
    ELSE IF dt >= nld
    THEN {Draw(FALSE, FALSE, FALSE, FALSE, ln, pk) :
            ln \in RandomLanes(lc),
            pk \in 1 .. Max(1, Len(availableIndices(collected)))}
    ELSE {Draw(FALSE, FALSE, FALSE, FALSE, 0, 1)}
         \cup {Draw(TRUE, FALSE, FALSE, FALSE, ln, 1) : ln \in RandomLanes(lc)}
         \cup {Draw(TRUE, TRUE, FALSE, gm, ln, 1) :
                 gm \in BOOLEAN, ln \in RandomLanes(lc)}
         \cup {Draw(TRUE, TRUE, TRUE, FALSE, ln, 1) : ln \in RandomLanes(lc)}

\* Mutant: aliens are spawned at every level
spawnAlien_AnyLevel(lvl, d) == d.alien

\* const spawnAlien = level >= 2 && Math.random() < 0.2
spawnAlien(lvl, d) == lvl >= 2 /\ d.alien

\* Mutant: the lone-gem branch pushes nothing
SpawnedObjects_NoLoneGem(kept, nid, spd, lvl, collected, dt, nld, d) ==
    LET z == spawnZ(kept, spd)
        x == d.lane * LANE_WIDTH
        avail == availableIndices(collected)
        chosen == avail[((d.pick - 1) % Len(avail)) + 1]
    IN  IF ~SpawnOpen(kept) THEN <<>>
        ELSE IF dt >= nld
             THEN IF Len(avail) > 0
                  THEN <<[GameObject(nid, "LETTER", x, U, z)
                            EXCEPT !.targetIndex = chosen]>>
                  ELSE <<[GameObject(nid, "GEM", x, (12 * U) \div 10, z)
                            EXCEPT !.points = 50]>>
        ELSE IF d.spawn /\ d.obstacle
             THEN <<GameObject(nid, "OBSTACLE", x, 0, z)>>
        ELSE <<>>

\* The entities the Spawning Logic pushes, given keptObjects after the fold
SpawnedObjects(kept, nid, spd, lvl, collected, dt, nld, d) ==
    LET z == spawnZ(kept, spd)
        x == d.lane * LANE_WIDTH
        avail == availableIndices(collected)
        chosen == avail[((d.pick - 1) % Len(avail)) + 1]
    IN  IF ~SpawnOpen(kept) THEN <<>>
        ELSE IF dt >= nld
             THEN IF Len(avail) > 0
                  THEN <<[GameObject(nid, "LETTER", x, U, z)
                            EXCEPT !.targetIndex = chosen]>>
                  ELSE <<[GameObject(nid, "GEM", x, (12 * U) \div 10, z)
                            EXCEPT !.points = 50]>>
        ELSE IF d.spawn
             THEN IF d.obstacle
                  THEN IF spawnAlien(lvl, d)
                       THEN <<GameObject(nid, "ALIEN", x, (15 * U) \div 10, z)>>
                       ELSE <<GameObject(nid, "OBSTACLE", x, 0, z)>>
                            \o (IF d.gem
                                THEN <<[GameObject(nid + 1, "GEM", x,
                                                   (25 * U) \div 10, z)
                                          EXCEPT !.points = 100]>>
                                ELSE <<>>)
                  ELSE <<[GameObject(nid, "GEM", x, (12 * U) \div 10, z)
                            EXCEPT !.points = 50]>>
        ELSE <<>>

\* Mutant: the letter branch does not move the threshold
NextLetterAfterSpawn_NoAdvance(kept, lvl, collected, dt, nld) == nld

\* Mutant: the exhausted-pool fallback moves the threshold as well
NextLetterAfterSpawn_AdvancesOnFallback(kept, lvl, collected, dt, nld) ==
    IF SpawnOpen(kept) /\ dt >= nld
    THEN nld + getLetterInterval(lvl)
    ELSE nld

\* nextLetterDistance.current += getLetterInterval(level), in the letter branch
NextLetterAfterSpawn(kept, lvl, collected, dt, nld) ==
    IF SpawnOpen(kept) /\ dt >= nld /\ Len(availableIndices(collected)) > 0
    THEN nld + getLetterInterval(lvl)
    ELSE nld

\* The store after the notifications of a frame (stands for store.ts):
\* collectLetter(i) records the index, openShop() enters the shop
RECURSIVE LettersAfter(_, _, _)
LettersAfter(collected, notes, i) ==
    IF i > Len(notes) THEN collected
    ELSE LettersAfter(IF notes[i].kind = "collectLetter"
                         THEN collected \cup {notes[i].arg} ELSE collected,
                      notes, i + 1)

HasNote(notes, k) == \E i \in 1 .. Len(notes) : notes[i].kind = k

CountNotes(notes, k, i) ==
    Cardinality({j \in 1 .. Len(notes) : notes[j].kind = k /\ notes[j].id = i})

StatusAfter(st, notes) == IF HasNote(notes, "openShop") THEN "SHOP" ELSE st

----------------------------------------------------------------------------
(* The status/level effect of LevelManager *)

\* Mutant: a restart after VICTORY does not clear the store
isReset_NoVictory(st, pst) ==
    \/ st = "MENU"
    \/ st = "PLAYING" /\ pst = "GAME_OVER"

\* isMenuReset || isRestart || isVictoryReset
isReset(st, pst) ==
    \/ st = "MENU"
    \/ st = "PLAYING" /\ pst = "GAME_OVER"
    \/ st = "PLAYING" /\ pst = "VICTORY"

\* Mutant: only the change away from level 1 counts as a level-up
isLevelUp_OnlyFirst(st, lvl, plvl) == lvl # plvl /\ st = "PLAYING" /\ plvl = 1

\* const isLevelUp = level !== prevLevel.current && status === PLAYING
isLevelUp(st, lvl, plvl) == lvl # plvl /\ st = "PLAYING"

\* Mutant: the level-up prunes nothing
NearObjects_KeepsAll(objs) == objs

\* objectsRef.current.filter(obj => obj.position[2] > -80)
NearObjects(objs) == SelectSeq(objs, LAMBDA o : o.z > LEVELUP_CUTOFF_Z)

ShopPortal(nid) == GameObject(nid, "SHOP_PORTAL", 0, 0, PORTAL_SPAWN_Z)

\* The refs after the effect has run for (st, lvl)
LevelEffect(st, lvl, pst, plvl, objs, dt, nld, nid) ==
    IF isReset(st, pst)
    THEN [objects |-> <<>>, distanceTraveled |-> 0,
          nextLetterDistance |-> getLetterInterval(1), nid |-> nid]
    ELSE IF isLevelUp(st, lvl, plvl) /\ lvl > 1
    THEN [objects |-> Append(NearObjects(objs), ShopPortal(nid)),
          distanceTraveled |-> dt,
          nextLetterDistance |-> dt - SPAWN_DISTANCE + getLetterInterval(lvl),
          nid |-> nid + 1]
    ELSE [objects |-> objs, distanceTraveled |-> dt,
          nextLetterDistance |-> nld, nid |-> nid]

\* The store changes to (st, lvl); React renders and runs the effects of
\* LevelManager and, when the status changed, of Player
RunEffects(st, lvl) ==
    LET e == LevelEffect(st, lvl, prevStatus, prevLevel, objects,
                         distanceTraveled, nextLetterDistance, nextId)
    IN  /\ status' = st
        /\ level' = lvl
        /\ prevStatus' = st
        /\ prevLevel' = lvl
        /\ objects' = e.objects
        /\ distanceTraveled' = e.distanceTraveled
        /\ nextLetterDistance' = e.nextLetterDistance
        /\ nextId' = e.nid
        /\ SetPlayer(IF st # status THEN ResetPlayer(ThePlayer, st) ELSE ThePlayer)
        /\ notifyCount' = [i \in 1 .. (e.nid - 1) |->
                             IF i < nextId THEN notifyCount[i] ELSE 0]
        /\ deactCount' = [i \in 1 .. (e.nid - 1) |->
                             IF i < nextId THEN deactCount[i] ELSE 0]

----------------------------------------------------------------------------
(* One rendered frame: the useFrame callbacks in subscription order        *)
(* (Player, LevelManager's attach, LevelManager's simulation).             *)

\* keptObjects after the entity loop and the fold of newSpawns
FrameLoop(p1, attached, delta, t) ==
    EntityLoop(objects, p1, nextId, speed, delta, PlayerPos(p1, attached), t,
               isImmortalityActive)

\* Per id, how many of the frame's notes are damage, collect or shop calls
NotesFor(notes, i) ==
    CountNotes(notes, "player-hit", i) + CountNotes(notes, "collectGem", i)
        + CountNotes(notes, "collectLetter", i) + CountNotes(notes, "openShop", i)

\* Whether object i of the loop went from active to inactive
Deactivated(objs, mutated, i) ==
    \E k \in 1 .. Len(objs) :
        objs[k].id = i /\ objs[k].active /\ ~mutated[k].active

\* Observation: the player's frame callback landed the player
LandNotes(p0, p1) ==
    IF p0.isJumping /\ ~p1.isJumping THEN <<Note("landed", 0, 0)>> ELSE <<>>

\* Mutant: the simulation runs whatever the status
LevelManagerRuns_Always(st) == TRUE

\* if (status !== GameStatus.PLAYING) return;
LevelManagerRuns(st) == st = "PLAYING"

FrameWith(delta, d, found, a) ==
    LET t == now + delta
        attached == playerAttached \/ found
        p1 == PlayerFrame(ThePlayer, delta, t, status)
        dt == distanceTraveled + FrameDist(speed, delta)
        spawned == SpawnedObjects(a.kept, a.nid, speed, level, collectedLetters,
                                  dt, nextLetterDistance, d)
        nid == a.nid + Len(spawned)
    IN  /\ now' = t
        /\ frameCount' = frameCount + 1
        /\ playerAttached' = attached
        /\ lastOp' = "frame"
        /\ UNCHANGED <<level, laneCount, speed, hasDoubleJump, isImmortalityActive,
                       prevStatus, prevLevel, inputCount, limits>>
        /\ stallCount' = IF delta = StallDelta THEN stallCount + 1 ELSE stallCount
        /\ IF ~LevelManagerRuns(status)
           THEN /\ SetPlayer(p1)
                /\ events' = LandNotes(ThePlayer, p1)
                /\ spawnInfo' = [ran |-> FALSE, open |-> FALSE, due |-> FALSE,
                                 roll |-> FALSE, count |-> 0]
                /\ UNCHANGED <<status, collectedLetters, objects, distanceTraveled,
                               nextLetterDistance, nextId, lastTakeDamage,
                               notifyCount, deactCount>>
           ELSE /\ SetPlayer(a.p)
                /\ events' = LandNotes(ThePlayer, p1) \o a.notes
                /\ distanceTraveled' = dt
                /\ nextLetterDistance' =
                      NextLetterAfterSpawn(a.kept, level, collectedLetters, dt,
                                           nextLetterDistance)
                \* if (hasChanges) objectsRef.current = keptObjects
                /\ objects' = IF a.changes \/ Len(spawned) > 0
                              THEN a.kept \o spawned ELSE a.mutated
                /\ nextId' = nid
                /\ status' = StatusAfter(status, a.notes)
                /\ collectedLetters' = LettersAfter(collectedLetters, a.notes, 1)
                /\ spawnInfo' = [ran |-> TRUE, open |-> SpawnOpen(a.kept),
                                 due |-> dt >= nextLetterDistance,
                                 roll |-> SpawnOpen(a.kept)
                                            /\ ~(dt >= nextLetterDistance)
                                            /\ d.spawn,
                                 count |-> Len(spawned)]
                /\ lastTakeDamage' = IF HasNote(a.notes, "takeDamage")
                                     THEN t ELSE lastTakeDamage
                /\ notifyCount' = [i \in 1 .. (nid - 1) |->
                      (IF i < nextId THEN notifyCount[i] ELSE 0)
                          + NotesFor(a.notes, i)]
                /\ deactCount' = [i \in 1 .. (nid - 1) |->
                      (IF i < nextId THEN deactCount[i] ELSE 0)
                          + (IF Deactivated(objects, a.mutated, i) THEN 1 ELSE 0)]

----------------------------------------------------------------------------
(* Inputs and store changes *)

\* handleKeyDown / handleTouchEnd: ignored unless status is PLAYING
KeyLeft ==
    /\ inputCount < limits.inputs
    /\ inputCount' = inputCount + 1
    /\ SetPlayer(IF status = "PLAYING" THEN MoveLeft(ThePlayer, laneCount)
                 ELSE ThePlayer)
    /\ lastOp' = "left"
    /\ UNCHANGED <<storeVars, levelVars, now, nextId, frameCount, stallCount,
                   limits, events,
                   spawnInfo, lastTakeDamage, notifyCount, deactCount>>

KeyRight ==
    /\ inputCount < limits.inputs
    /\ inputCount' = inputCount + 1
    /\ SetPlayer(IF status = "PLAYING" THEN MoveRight(ThePlayer, laneCount)
                 ELSE ThePlayer)
    /\ lastOp' = "right"
    /\ UNCHANGED <<storeVars, levelVars, now, nextId, frameCount, stallCount,
                   limits, events,
                   spawnInfo, lastTakeDamage, notifyCount, deactCount>>

KeyJump ==
    /\ inputCount < limits.inputs
    /\ inputCount' = inputCount + 1
    /\ SetPlayer(IF status = "PLAYING" THEN triggerJump(ThePlayer, hasDoubleJump)
                 ELSE ThePlayer)
    /\ lastOp' = "jump"
    /\ UNCHANGED <<storeVars, levelVars, now, nextId, frameCount, stallCount,
                   limits, events,
                   spawnInfo, lastTakeDamage, notifyCount, deactCount>>

\* The store raises the level during a run (stands for store.ts)
AdvanceLevel ==
    /\ status = "PLAYING"
    /\ level < limits.level
    /\ inputCount < limits.inputs
    /\ inputCount' = inputCount + 1
    /\ RunEffects(status, level + 1)
    /\ lastOp' = "levelup"
    /\ UNCHANGED <<laneCount, speed, collectedLetters, hasDoubleJump,
                   isImmortalityActive, playerAttached, now, frameCount,
                   stallCount, limits, events, spawnInfo, lastTakeDamage>>

\* closeShop() of the store: back to the run (stands for store.ts)
CloseShop ==
    /\ status = "SHOP"
    /\ RunEffects("PLAYING", level)
    /\ lastOp' = "closeShop"
    /\ UNCHANGED <<laneCount, speed, collectedLetters, hasDoubleJump,
                   isImmortalityActive, playerAttached, now, frameCount,
                   inputCount, stallCount, limits, events, spawnInfo, lastTakeDamage>>

\* The run ends: the store sets GAME_OVER or VICTORY (stands for store.ts)
EndRun ==
    /\ status = "PLAYING"
    /\ \E st \in {"GAME_OVER", "VICTORY"} : RunEffects(st, level)
    /\ lastOp' = "end"
    /\ UNCHANGED <<laneCount, speed, collectedLetters, hasDoubleJump,
                   isImmortalityActive, playerAttached, now, frameCount,
                   inputCount, stallCount, limits, events, spawnInfo, lastTakeDamage>>

\* Back to the menu after a run (stands for store.ts)
ToMenu ==
    /\ status \in {"GAME_OVER", "VICTORY"}
    /\ RunEffects("MENU", level)
    /\ lastOp' = "menu"
    /\ UNCHANGED <<laneCount, speed, collectedLetters, hasDoubleJump,
                   isImmortalityActive, playerAttached, now, frameCount,
                   inputCount, stallCount, limits, events, spawnInfo, lastTakeDamage>>

\* startGame() of the store, the menu's button: a fresh run at level 1
\* (stands for store.ts)
StartGame ==
    /\ status = "MENU"
    /\ RunEffects("PLAYING", 1)
    /\ collectedLetters' = {}
    /\ lastOp' = "start"
    /\ UNCHANGED <<laneCount, speed, hasDoubleJump,
                   isImmortalityActive, playerAttached, now, frameCount,
                   inputCount, stallCount, limits, events, spawnInfo, lastTakeDamage>>

\* restartGame() of the store, the button of the GAME_OVER and VICTORY
\* screens: a new run at level 1 (stands for store.ts)
RestartGame ==
    /\ status \in {"GAME_OVER", "VICTORY"}
    /\ RunEffects("PLAYING", 1)
    /\ collectedLetters' = {}
    /\ lastOp' = "restart"
    /\ UNCHANGED <<laneCount, speed, hasDoubleJump,
                   isImmortalityActive, playerAttached, now, frameCount,
                   inputCount, stallCount, limits, events, spawnInfo, lastTakeDamage>>

\* Math.random() is drawn after the entity loop, on what the loop left
Frame(delta, found) ==
    LET t == now + delta
        p1 == PlayerFrame(ThePlayer, delta, t, status)
        a == FrameLoop(p1, playerAttached \/ found, delta, t)
    IN  \E d \in SpawnDraws(a.kept, laneCount, level, collectedLetters,
                            distanceTraveled + FrameDist(speed, delta),
                            nextLetterDistance) :
            FrameWith(delta, d, found, a)

FrameDeltas == Deltas \cup (IF stallCount < limits.stalls THEN {StallDelta} ELSE {})

RunFrame ==
    /\ frameCount < limits.frames
    /\ \E delta \in FrameDeltas,
          found \in (IF playerAttached THEN {TRUE} ELSE BOOLEAN) :
            Frame(delta, found)

----------------------------------------------------------------------------
(* The run of the world: a snapshot of a run in progress, then frames,     *)
(* inputs and store changes.                                               *)

NoSpawnInfo ==
    [ran |-> FALSE, open |-> FALSE, due |-> FALSE, roll |-> FALSE, count |-> 0]

\* Entity groups the Spawning Logic, an Alien or the level effect creates,
\* here close ahead of the player; ids are given in store order
NearZ == -((25 * U) \div 10)

StaticGroups(lvl) ==
    {<<>>}
    \cup {<<GameObject(1, "OBSTACLE", ln * LANE_WIDTH, 0, NearZ)>> : ln \in InitLanes}
    \cup {<<GameObject(1, "OBSTACLE", ln * LANE_WIDTH, 0, NearZ),
            [GameObject(2, "GEM", ln * LANE_WIDTH, (25 * U) \div 10, NearZ)
                EXCEPT !.points = 100]>> : ln \in InitLanes}
    \cup {<<[GameObject(1, "GEM", ln * LANE_WIDTH, (12 * U) \div 10, NearZ)
                EXCEPT !.points = 50]>> : ln \in InitLanes}
    \cup {<<[GameObject(1, "LETTER", ln * LANE_WIDTH, U, NearZ)
                EXCEPT !.targetIndex = 0]>> : ln \in InitLanes}
    \cup (IF lvl < 2 THEN {}
          ELSE {<<[GameObject(1, "ALIEN", ln * LANE_WIDTH, (15 * U) \div 10, NearZ)
                      EXCEPT !.hasFired = TRUE]>> : ln \in InitLanes}
               \cup {<<GameObject(1, "SHOP_PORTAL", 0, 0, NearZ)>>})

MissileGroups(lvl, n) ==
    {<<>>}
    \cup (IF lvl < 2 THEN {}
          ELSE {<<GameObject(n, "MISSILE", ln * LANE_WIDTH, U, NearZ)>> :
                    ln \in InitLanes})

\* An entity beyond the spawn boundary and the level-up cutoff: with it no
\* road is open ahead
FarZ == -(85 * U)

FarGroup == <<GameObject(1, "OBSTACLE", 0, 0, FarZ)>>

InitStores(lvl) ==
    {g \o FarGroup \o m : g \in StaticGroups(lvl), m \in MissileGroups(lvl, 3)}

\* ids in store order, 1 .. Len
Renumber(objs) == [k \in 1 .. Len(objs) |-> [objs[k] EXCEPT !.id = k]]

Init ==
    /\ status = "PLAYING"
    /\ prevStatus = "PLAYING"
    /\ level \in 1 .. MaxLevel
    /\ prevLevel = level
    /\ laneCount = 3
    /\ speed = InitSpeed
    /\ collectedLetters = {}
    /\ hasDoubleJump = FALSE
    /\ isImmortalityActive \in BOOLEAN
    /\ \E st \in InitStores(level) :
          /\ objects = Renumber(st)
          /\ nextId = Len(st) + 1
          /\ notifyCount = [i \in 1 .. Len(st) |-> 0]
          /\ deactCount = [i \in 1 .. Len(st) |-> 0]
    /\ distanceTraveled = InitDistance
    /\ nextLetterDistance = getLetterInterval(1)
    /\ playerAttached = TRUE
    /\ SetPlayer0
    /\ now = 0
    /\ frameCount = 0
    /\ inputCount = 0
    /\ stallCount = 0
    /\ limits = [frames |-> MaxFrames, inputs |-> MaxInputs, level |-> MaxLevel,
                 stalls |-> MaxStalls]
    /\ lastOp = "init"
    /\ events = <<>>
    /\ spawnInfo = NoSpawnInfo
    /\ lastTakeDamage = -1

Next ==
    \/ RunFrame
    \/ KeyLeft
    \/ KeyRight
    \/ KeyJump
    \/ AdvanceLevel
    \/ CloseShop

Spec == Init /\ [][Next]_vars

----------------------------------------------------------------------------
(* The run of the player controller: lane and jump inputs between frames,  *)
(* for several lane counts, with and without the double-jump upgrade.      *)

PlayerLaneCounts == {3, 4, 5}

\* The player of a run in progress: just mounted, or in the air after a jump
\* and eleven frames of 60 ms (16 - 11 * 3 = -17 units/s at height 0.66)
FallingPlayer ==
    [InitialPlayer EXCEPT !.isJumping = TRUE, !.jumpsPerformed = 1,
                          !.velocityY = -17 * V, !.posY = (66 * U) \div 100]

InitPlayers == {InitialPlayer, FallingPlayer}

InitPlayer ==
    /\ status = "PLAYING"
    /\ prevStatus = "PLAYING"
    /\ level = 1
    /\ prevLevel = level
    /\ laneCount \in PlayerLaneCounts
    /\ speed = InitSpeed
    /\ collectedLetters = {}
    /\ hasDoubleJump \in BOOLEAN
    /\ isImmortalityActive = FALSE
    /\ objects = FarGroup
    /\ nextId = 2
    /\ notifyCount = [i \in 1 .. 1 |-> 0]
    /\ deactCount = [i \in 1 .. 1 |-> 0]
    /\ distanceTraveled = InitDistance
    /\ nextLetterDistance = getLetterInterval(1)
    /\ playerAttached = TRUE
    /\ \E p \in InitPlayers :
          /\ lane = p.lane
          /\ posX = p.posX
          /\ posY = p.posY
          /\ isJumping = p.isJumping
          /\ velocityY = p.velocityY
          /\ jumpsPerformed = p.jumpsPerformed
          /\ isInvincible = p.isInvincible
          /\ lastDamageTime = p.lastDamageTime
    /\ now = 0
    /\ frameCount = 0
    /\ inputCount = 0
    /\ stallCount = 0
    /\ limits = [frames |-> MaxPlayerFrames, inputs |-> MaxPlayerInputs,
                 level |-> 1, stalls |-> MaxStalls]
    /\ lastOp = "init"
    /\ events = <<>>
    /\ spawnInfo = NoSpawnInfo
    /\ lastTakeDamage = -1

NextPlayer ==
    \/ RunFrame
    \/ KeyLeft
    \/ KeyRight
    \/ KeyJump

SpecPlayer == InitPlayer /\ [][NextPlayer]_vars

\* A frame is run: the RunFrame steps are the only steps that raise
\* frameCount, and RunFrame is enabled exactly when frameCount is below the
\* frame budget
FrameTick == frameCount < limits.frames /\ frameCount' = frameCount + 1

\* ---------------------------------------------------------------------------
\* The jump alone: the jump key and the frames of a run, called again and
\* again by the render loop

InitJump ==
    /\ status = "PLAYING"
    /\ prevStatus = "PLAYING"
    /\ level = 1
    /\ prevLevel = level
    /\ laneCount = 3
    /\ speed = InitSpeed
    /\ collectedLetters = {}
    /\ hasDoubleJump \in BOOLEAN
    /\ isImmortalityActive = FALSE
    /\ objects = FarGroup
    /\ nextId = 2
    /\ notifyCount = [i \in 1 .. 1 |-> 0]
    /\ deactCount = [i \in 1 .. 1 |-> 0]
    /\ distanceTraveled = InitDistance
    /\ nextLetterDistance = getLetterInterval(1)
    /\ playerAttached = TRUE
    /\ \E p \in InitPlayers :
          /\ lane = p.lane
          /\ posX = p.posX
          /\ posY = p.posY
          /\ isJumping = p.isJumping
          /\ velocityY = p.velocityY
          /\ jumpsPerformed = p.jumpsPerformed
          /\ isInvincible = p.isInvincible
          /\ lastDamageTime = p.lastDamageTime
    /\ now = 0
    /\ frameCount = 0
    /\ inputCount = 0
    /\ stallCount = 0
    /\ limits = [frames |-> MaxJumpFrames, inputs |-> MaxJumpInputs,
                 level |-> 1, stalls |-> 0]
    /\ lastOp = "init"
    /\ events = <<>>
    /\ spawnInfo = NoSpawnInfo
    /\ lastTakeDamage = -1

NextJump ==
    \/ RunFrame
    \/ KeyJump

SpecJumpLive == InitJump /\ [][NextJump]_vars /\ WF_frameCount(FrameTick)

----------------------------------------------------------------------------
(* The run of the Spawning Logic: frames over an open or a closed road,    *)
(* with a letter due or not.                                               *)

\* Scroll speeds the store supplies: the base speed and a late-game speed
\* (at 100 units/s minGap is 52, so a letter spawned late is still on the
\* road when the next one is due)
FastSpeed == 100 * V

OpenZ == -(40 * U)

\* A letter (index 0) in the player's lane, about to be collected
NearLetter == [GameObject(1, "LETTER", 0, U, NearZ) EXCEPT !.targetIndex = 0]

\* An obstacle in the player's lane, about to reach the player
NearObstacle == GameObject(1, "OBSTACLE", 0, 0, NearZ)

SpawnStores ==
    {<<>>, <<GameObject(1, "OBSTACLE", 0, 0, OpenZ)>>, FarGroup, <<NearLetter>>,
     <<NearObstacle>>}

\* An alien spawned at the late-game speed (spawnZ = -112) that has scrolled
\* to z = -93 and has not crossed the fire threshold yet
UnfiredAlien == GameObject(1, "ALIEN", 0, (15 * U) \div 10, -(93 * U))

\* The stores a snapshot at level lvl and speed spd can hold: aliens exist
\* from level 2, and one is beyond z = -90 only at the late-game speed
\* A letter (index 0) spawned at the late-game speed (spawnZ = -112) that is
\* still ahead of the player, 102 units later
AheadLetter ==
    [GameObject(1, "LETTER", 0, U, -(10 * U)) EXCEPT !.targetIndex = 0]

\* The portal of the last level-up, about to reach the player
NearPortal == GameObject(1, "SHOP_PORTAL", 0, 0, NearZ)

SpawnStoresAt(lvl, spd) ==
    SpawnStores
      \cup (IF lvl >= 2 /\ spd = FastSpeed
            THEN {<<UnfiredAlien>>, <<NearPortal>>} ELSE {})
      \cup (IF lvl = 1 /\ spd = FastSpeed THEN {<<AheadLetter>>} ELSE {})

SpawnSpeeds == {InitSpeed, FastSpeed}

AllLetters == 0 .. (TARGET_LEN - 1)

InitSpawn ==
    /\ status = "PLAYING"
    /\ prevStatus = "PLAYING"
    /\ level \in 1 .. MaxLevel
    /\ prevLevel = level
    /\ laneCount = 3
    /\ speed \in SpawnSpeeds
    /\ \E due \in BOOLEAN :
          /\ nextLetterDistance =
                IF due THEN InitDistance ELSE InitDistance + getLetterInterval(level)
          /\ collectedLetters \in (IF due THEN {{}, AllLetters} ELSE {{}})
    /\ hasDoubleJump = FALSE
    /\ isImmortalityActive = FALSE
    /\ \E st \in SpawnStoresAt(level, speed) :
          /\ objects = st
          /\ nextId = Len(st) + 1
          /\ notifyCount = [i \in 1 .. Len(st) |-> 0]
          /\ deactCount = [i \in 1 .. Len(st) |-> 0]
    \* a letter is due while the one before it is still on the road only at
    \* level 1 (interval 150) and the late-game speed (minGap 52)
    /\ (nextLetterDistance = InitDistance
          /\ \E k \in 1 .. Len(objects) : objects[k].type = "LETTER")
         => (level = 1 /\ speed = FastSpeed)
    /\ distanceTraveled = InitDistance
    /\ playerAttached = TRUE
    /\ SetPlayer0
    /\ now = 0
    /\ frameCount = 0
    /\ inputCount = 0
    /\ stallCount = 0
    /\ limits = [frames |-> MaxSpawnFrames, inputs |-> 1, level |-> MaxLevel,
                 stalls |-> 0]
    /\ lastOp = "init"
    /\ events = <<>>
    /\ spawnInfo = NoSpawnInfo
    /\ lastTakeDamage = -1

NextSpawn ==
    \/ RunFrame
    \/ AdvanceLevel

SpecSpawn == InitSpawn /\ [][NextSpawn]_vars

\* ---------------------------------------------------------------------------
\* The inputs of furthestZ: stores with missiles on either side of the static
\* entities and of the spawn boundary, and a store holding only missiles.
\* (furthestZ is a function of keptObjects alone; these stores are drawn as
\* its inputs, whatever history would lead to them.)

MissileAt(i, z) == GameObject(i, "MISSILE", LANE_WIDTH, U, z)

FurthestStores ==
    {<<MissileAt(1, -(70 * U))>>,
     <<MissileAt(1, -(10 * U))>>,
     <<MissileAt(1, -(70 * U)), MissileAt(2, -(30 * U))>>,
     <<GameObject(1, "OBSTACLE", 0, 0, OpenZ), MissileAt(2, -(70 * U))>>,
     <<GameObject(1, "OBSTACLE", 0, 0, FarZ), MissileAt(2, -(30 * U))>>}

InitFurthest ==
    /\ status = "PLAYING"
    /\ prevStatus = "PLAYING"
    /\ level \in 2 .. MaxLevel
    /\ prevLevel = level
    /\ laneCount = 3
    /\ speed \in SpawnSpeeds
    /\ \E due \in BOOLEAN :
          /\ nextLetterDistance =
                IF due THEN InitDistance ELSE InitDistance + getLetterInterval(level)
          /\ collectedLetters \in (IF due THEN {{}, AllLetters} ELSE {{}})
    /\ hasDoubleJump = FALSE
    /\ isImmortalityActive = FALSE
    /\ \E st \in FurthestStores :
          /\ objects = st
          /\ nextId = Len(st) + 1
          /\ notifyCount = [i \in 1 .. Len(st) |-> 0]
          /\ deactCount = [i \in 1 .. Len(st) |-> 0]
    /\ distanceTraveled = InitDistance
    /\ playerAttached = TRUE
    /\ SetPlayer0
    /\ now = 0
    /\ frameCount = 0
    /\ inputCount = 0
    /\ stallCount = 0
    /\ limits = [frames |-> MaxSpawnFrames, inputs |-> 1, level |-> MaxLevel,
                 stalls |-> 0]
    /\ lastOp = "init"
    /\ events = <<>>
    /\ spawnInfo = NoSpawnInfo
    /\ lastTakeDamage = -1

SpecFurthest == InitFurthest /\ [][RunFrame]_vars

\* ---------------------------------------------------------------------------
\* The end of an entity's life: a run in progress whose oldest entities have
\* passed the player and are about to cross REMOVE_DISTANCE

\* An obstacle the player ran into (inactive since) and a gem in the next
\* lane the player missed
HitObstacle ==
    [GameObject(1, "OBSTACLE", 0, 0, REMOVE_DISTANCE - (3 * U) \div 10)
        EXCEPT !.active = FALSE]

MissedGem ==
    [GameObject(2, "GEM", LANE_WIDTH, (12 * U) \div 10, REMOVE_DISTANCE - U \div 2)
        EXCEPT !.points = 50]

\* Behind them the road is either full up to the spawn boundary or open
CullStores ==
    {<<HitObstacle, MissedGem, GameObject(3, "OBSTACLE", 0, 0, FarZ)>>,
     <<HitObstacle, MissedGem, GameObject(3, "OBSTACLE", 0, 0, OpenZ)>>}

\* At level 2 and the late-game speed the entity behind them can be an alien
\* that has not crossed the fire threshold yet
CullStoresAt(lvl, spd) ==
    CullStores
      \cup (IF lvl >= 2 /\ spd = FastSpeed
            THEN {<<HitObstacle, MissedGem, [UnfiredAlien EXCEPT !.id = 3]>>}
            ELSE {})

InitCull ==
    /\ status = "PLAYING"
    /\ prevStatus = "PLAYING"
    /\ level \in 1 .. MaxLevel
    /\ prevLevel = level
    /\ laneCount = 3
    /\ speed \in SpawnSpeeds
    /\ nextLetterDistance = InitDistance + getLetterInterval(level)
    /\ collectedLetters = {}
    /\ hasDoubleJump = FALSE
    /\ isImmortalityActive = FALSE
    /\ \E st \in CullStoresAt(level, speed) :
          /\ objects = st
          /\ nextId = Len(st) + 1
          /\ notifyCount = [i \in 1 .. Len(st) |-> IF st[i].active THEN 0 ELSE 1]
          /\ deactCount = [i \in 1 .. Len(st) |-> IF st[i].active THEN 0 ELSE 1]
    /\ distanceTraveled = InitDistance
    /\ playerAttached = TRUE
    /\ SetPlayer0
    /\ now = 0
    /\ frameCount = 0
    /\ inputCount = 0
    /\ stallCount = 0
    /\ limits = [frames |-> MaxCullFrames, inputs |-> 1, level |-> MaxLevel,
                 stalls |-> 0]
    /\ lastOp = "init"
    /\ events = <<>>
    /\ spawnInfo = NoSpawnInfo
    /\ lastTakeDamage = -1

NextCull ==
    \/ RunFrame
    \/ AdvanceLevel

SpecCull == InitCull /\ [][NextCull]_vars

\* The render loop calls the frame callbacks again and again
SpecCullLive == InitCull /\ [][NextCull]_vars /\ WF_frameCount(FrameTick)

----------------------------------------------------------------------------
(* The lifecycle: runs that end, restart, go through the menu and the shop, *)
(* with level-ups, frames and inputs in between.                            *)

\* Stores of a run in progress: the far obstacle alone, behind an obstacle
\* near the player, or (from level 2 on) behind the level's portal
LifeStores(lvl) ==
    {FarGroup, <<GameObject(1, "OBSTACLE", 0, 0, NearZ)>> \o FarGroup}
    \cup (IF lvl < 2 THEN {}
          ELSE {<<GameObject(1, "SHOP_PORTAL", 0, 0, NearZ)>> \o FarGroup})

\* Mounted with the menu showing (nothing in the store), or a run in progress
InitLife ==
    /\ \/ /\ status = "MENU"
          /\ level = 1
          /\ objects = <<>>
          /\ nextId = 1
          /\ notifyCount = <<>>
          /\ deactCount = <<>>
          /\ distanceTraveled = 0
       \/ /\ status = "PLAYING"
          /\ level \in 1 .. MaxLevel
          /\ \E st \in LifeStores(level) :
                /\ objects = Renumber(st)
                /\ nextId = Len(st) + 1
                /\ notifyCount = [i \in 1 .. Len(st) |-> 0]
                /\ deactCount = [i \in 1 .. Len(st) |-> 0]
          /\ distanceTraveled = InitDistance
    /\ prevStatus = status
    /\ prevLevel = level
    /\ laneCount = 3
    /\ speed = InitSpeed
    /\ collectedLetters = {}
    /\ hasDoubleJump = FALSE
    /\ isImmortalityActive = FALSE
    /\ nextLetterDistance = getLetterInterval(1)
    /\ playerAttached = TRUE
    /\ \E p \in (IF status = "MENU" THEN {InitialPlayer} ELSE InitPlayers) :
          /\ lane = p.lane
          /\ posX = p.posX
          /\ posY = p.posY
          /\ isJumping = p.isJumping
          /\ velocityY = p.velocityY
          /\ jumpsPerformed = p.jumpsPerformed
          /\ isInvincible = p.isInvincible
          /\ lastDamageTime = p.lastDamageTime
    /\ now = 0
    /\ frameCount = 0
    /\ inputCount = 0
    /\ stallCount = 0
    /\ limits = [frames |-> MaxLifeFrames, inputs |-> MaxLifeInputs,
                 level |-> MaxLevel + 1, stalls |-> 0]
    /\ lastOp = "init"
    /\ events = <<>>
    /\ spawnInfo = NoSpawnInfo
    /\ lastTakeDamage = -1

NextLife ==
    \/ RunFrame
    \/ KeyLeft
    \/ KeyRight
    \/ KeyJump
    \/ AdvanceLevel
    \/ CloseShop
    \/ EndRun
    \/ ToMenu
    \/ StartGame
    \/ RestartGame

SpecLife == InitLife /\ [][NextLife]_vars

----------------------------------------------------------------------------
(* The run before the player object is attached: playerObjRef is null until *)
(* a frame finds PlayerGroup's child in the scene.                          *)

InitAttach ==
    /\ status = "PLAYING"
    /\ prevStatus = "PLAYING"
    /\ level \in 1 .. MaxLevel
    /\ prevLevel = level
    /\ laneCount = 3
    /\ speed = InitSpeed
    /\ collectedLetters = {}
    /\ hasDoubleJump = FALSE
    /\ isImmortalityActive = FALSE
    /\ \E st \in InitStores(level) :
          /\ objects = Renumber(st)
          /\ nextId = Len(st) + 1
          /\ notifyCount = [i \in 1 .. Len(st) |-> 0]
          /\ deactCount = [i \in 1 .. Len(st) |-> 0]
    /\ distanceTraveled = InitDistance
    /\ nextLetterDistance = getLetterInterval(1)
    /\ playerAttached = FALSE
    /\ SetPlayer0
    /\ now = 0
    /\ frameCount = 0
    /\ inputCount = 0
    /\ stallCount = 0
    /\ limits = [frames |-> MaxAttachFrames, inputs |-> MaxAttachInputs,
                 level |-> MaxLevel, stalls |-> 0]
    /\ lastOp = "init"
    /\ events = <<>>
    /\ spawnInfo = NoSpawnInfo
    /\ lastTakeDamage = -1

SpecAttach == InitAttach /\ [][NextPlayer]_vars

----------------------------------------------------------------------------
(* Properties *)

\* What a step that runs a Playing frame reads: the frame delta, the player
\* after its own frame callback, and the pose the collision block tests
PlayingFrameStep == lastOp' = "frame" /\ frameCount' = frameCount + 1 /\ status = "PLAYING"
StepDelta == now' - now
PlayerAtTest == PlayerFrame(ThePlayer, StepDelta, now', status)
PoseAtTest == [x |-> PlayerAtTest.posX, y |-> PlayerAtTest.posY, z |-> 0]

\* o, an entity of the store before the frame, is an active damage source that
\* is in the z-zone, within lane tolerance and in the player's body band
OverlapsPlayer(o) ==
    /\ o.active
    /\ isDamageSource(o)
    /\ inZZone(o.z, o.z + MoveAmount(o, speed, StepDelta), PoseAtTest)
    /\ Abs(o.x - PoseAtTest.x) < LANE_HIT
    /\ PoseAtTest.y < objTop(o)
    /\ PoseAtTest.y + PLAYER_HEIGHT > objBottom(o)

CountKind(notes, k) == Cardinality({j \in 1 .. Len(notes) : notes[j].kind = k})

\* C1: an entity's active flag goes from true to false at most once and never
\* back, at most one damage, collectGem, collectLetter or openShop notification
\* is ever emitted for it, and once inactive it is skipped by the collision
\* logic: an entity of the store is active exactly when it was never
\* deactivated, and no id has more than one deactivation or notification.
C1_DeactivatedOnce ==
    /\ \A i \in DOMAIN notifyCount : notifyCount[i] <= 1 /\ deactCount[i] <= 1
    /\ \A k \in 1 .. Len(objects) :
          /\ objects[k].active <=> deactCount[objects[k].id] = 0
          /\ objects[k].active => notifyCount[objects[k].id] = 0

\* An entity deactivated by an earlier frame is still in the store, in the
\* z-zone and in the player's lane, and the last frame emitted nothing for it
C1_Witness ==
    /\ lastOp = "frame"
    /\ frameCount >= 2
    /\ \E k \in 1 .. Len(objects) :
          /\ ~objects[k].active
          /\ notifyCount[objects[k].id] = 1
          /\ objects[k].z < zThreshold /\ objects[k].z > -zThreshold
          /\ Abs(objects[k].x - posX) < LANE_HIT
          /\ \A j \in 1 .. Len(events) : events[j].id # objects[k].id

\* C2: in a Playing frame with the player attached and neither invincible nor
\* immortal, if some active damage source is in the z-zone, within lane
\* tolerance and in the player's body band, the frame makes exactly one
\* takeDamage call and every such source is inactive at the end of the frame.
C2_OneDamagePerFrame ==
    [][ (/\ PlayingFrameStep
         /\ playerAttached'
         /\ ~PlayerAtTest.isInvincible
         /\ ~isImmortalityActive
         /\ \E k \in 1 .. Len(objects) : OverlapsPlayer(objects[k]))
        => (/\ CountKind(events', "takeDamage") = 1
            /\ \A k \in 1 .. Len(objects) :
                  OverlapsPlayer(objects[k])
                    => \A j \in 1 .. Len(objects') :
                          objects'[j].id = objects[k].id => ~objects'[j].active)
      ]_vars

\* Two damage sources hit the vulnerable player in one frame: one takeDamage
C2_Witness ==
    /\ lastOp = "frame"
    /\ CountKind(events, "player-hit") = 2
    /\ CountKind(events, "takeDamage") = 1
    /\ \A k \in 1 .. Len(objects) :
          (\E j \in 1 .. Len(events) : events[j].id = objects[k].id)
              => ~objects[k].active

\* C3: in a Playing frame in which the player is invincible (inside the window)
\* or immortal, no takeDamage call is made and the window is not restarted,
\* and every active damage source that overlaps the player is deactivated.
C3_SuppressedHitStillConsumes ==
    [][ (/\ PlayingFrameStep
         /\ playerAttached'
         /\ (PlayerAtTest.isInvincible \/ isImmortalityActive))
        => (/\ CountKind(events', "takeDamage") = 0
            /\ lastDamageTime' = lastDamageTime
            /\ isInvincible' = PlayerAtTest.isInvincible
            /\ \A k \in 1 .. Len(objects) :
                  OverlapsPlayer(objects[k])
                    => \A j \in 1 .. Len(objects') :
                          objects'[j].id = objects[k].id => ~objects'[j].active)
      ]_vars

\* A frame later than the damage: the invincible, not immortal, player is hit
\* again, no damage is taken, and the source is inactive
C3_Witness ==
    /\ lastOp = "frame"
    /\ isInvincible /\ ~isImmortalityActive
    /\ lastTakeDamage >= 0 /\ lastTakeDamage < now
    /\ CountKind(events, "player-hit") >= 1
    /\ CountKind(events, "takeDamage") = 0
    /\ \E k \in 1 .. Len(objects) :
          /\ ~objects[k].active
          /\ \E j \in 1 .. Len(events) :
                events[j].id = objects[k].id /\ events[j].kind = "player-hit"


\* C4: a takeDamage call is never made within 1500 ms of the previous one,
\* however many hits fall in between; and in a Playing frame more than 1500 ms
\* after the previous takeDamage call, with immortality off and the player
\* attached, a hit is applied as damage again (exactly one takeDamage call).
C4_DamageWindow ==
    [][ /\ (PlayingFrameStep /\ CountKind(events', "takeDamage") > 0
                /\ lastTakeDamage >= 0)
            => now' - lastTakeDamage > INVINCIBLE_MS
        /\ (/\ PlayingFrameStep
            /\ lastTakeDamage >= 0
            /\ now' - lastTakeDamage > INVINCIBLE_MS
            /\ ~isImmortalityActive
            /\ CountKind(events', "player-hit") > 0)
            => (/\ CountKind(events', "takeDamage") = 1
                /\ lastTakeDamage' = now'
                /\ isInvincible' /\ lastDamageTime' = now')
      ]_vars

\* The last frame applied damage although an earlier frame had already hit
\* the vulnerable player: the window of the first damage has run out
C4_Witness ==
    /\ lastOp = "frame"
    /\ ~isImmortalityActive
    /\ CountKind(events, "takeDamage") = 1
    /\ lastTakeDamage = now
    /\ now > INVINCIBLE_MS
    /\ \E k \in 1 .. Len(objects) :
          /\ ~objects[k].active
          /\ isDamageSource(objects[k])
          /\ notifyCount[objects[k].id] = 1
          /\ \A j \in 1 .. Len(events) : events[j].id # objects[k].id

\* C5: for a fixed laneCount the lane is an integer in
\* [-floor(laneCount/2), +floor(laneCount/2)] after any sequence of move-left
\* and move-right inputs; with laneCount = 5 it stays in [-2, 2].
C5_LaneInRange ==
    /\ lane \in (-(laneCount \div 2)) .. (laneCount \div 2)
    /\ laneCount = 5 => lane \in (-2) .. 2

\* Three move-right inputs with five lanes: the third one was clamped
C5_Witness ==
    /\ laneCount = 5
    /\ lane = 2
    /\ lastOp = "right"
    /\ inputCount = 3
    /\ frameCount = 0
    /\ ~isJumping

\* C6: in the first Playing frame after a move-left or move-right input, an
\* active damage source in the z-zone and in the player's body band is hit
\* exactly when its x is within the hit tolerance of lane * LANE_WIDTH, the x
\* of the new logical lane.
C6_LaneTestUsesLogicalLane ==
    [][ (PlayingFrameStep /\ playerAttached' /\ lastOp \in {"left", "right"})
        => \A k \in 1 .. Len(objects) :
              (/\ objects[k].active
               /\ isDamageSource(objects[k])
               /\ inZZone(objects[k].z,
                          objects[k].z + MoveAmount(objects[k], speed, StepDelta),
                          PoseAtTest)
               /\ PoseAtTest.y < objTop(objects[k])
               /\ PoseAtTest.y + PLAYER_HEIGHT > objBottom(objects[k]))
              => ((CountNotes(events', "player-hit", objects[k].id) > 0)
                    <=> Abs(objects[k].x - lane * LANE_WIDTH) < LANE_HIT)
      ]_vars

\* C7: a jump trigger from grounded sets jumpsPerformed to 1 and velocityY to
\* JUMP_FORCE and makes the player airborne; a trigger while airborne changes
\* nothing without the double jump, and with it resets velocityY to JUMP_FORCE
\* and raises jumpsPerformed to 2 once: a further trigger changes nothing.
C7_JumpTrigger ==
    [][ (lastOp' = "jump" /\ inputCount' = inputCount + 1 /\ status = "PLAYING")
        => /\ ~isJumping
                => (isJumping' /\ jumpsPerformed' = 1
                    /\ velocityY' = JUMP_FORCE * V)
           /\ (isJumping /\ ~hasDoubleJump)
                => (jumpsPerformed = 1 /\ UNCHANGED playerVars)
           /\ (isJumping /\ hasDoubleJump /\ jumpsPerformed = 1)
                => (isJumping' /\ jumpsPerformed' = 2
                    /\ velocityY' = JUMP_FORCE * V)
           /\ (isJumping /\ hasDoubleJump /\ jumpsPerformed # 1)
                => (jumpsPerformed = 2 /\ UNCHANGED playerVars)
           /\ UNCHANGED <<lane, posX, posY, isInvincible, lastDamageTime>>
      ]_vars

\* With the double jump, a third trigger in the air after a frame: the jump
\* count stays 2 and the velocity the frame left is untouched
C7_Witness ==
    /\ lastOp = "jump"
    /\ hasDoubleJump
    /\ isJumping
    /\ jumpsPerformed = 2
    /\ inputCount >= 3
    /\ frameCount >= 1
    /\ velocityY < JUMP_FORCE * V

\* C8: in every reachable player state the height is >= 0, jumpsPerformed is
\* 0 exactly when the player is grounded (not jumping), jumpsPerformed never
\* exceeds maxJumps, and a grounded player is at height 0 with zero vertical
\* velocity (what landing leaves).
C8_JumpState ==
    /\ posY >= 0
    /\ (jumpsPerformed = 0) <=> ~isJumping
    /\ jumpsPerformed \in 0 .. (IF hasDoubleJump THEN 2 ELSE 1)
    /\ ~isJumping => (posY = 0 /\ velocityY = 0)

\* The last frame landed the player
C8_Witness ==
    /\ lastOp = "frame"
    /\ CountKind(events, "landed") = 1
    /\ ~isJumping
    /\ posY = 0 /\ velocityY = 0 /\ jumpsPerformed = 0

\* C9: no step (frame, level-up, commit, input) moves an entity that is
\* active before and after it toward more negative z.
C9_NeverBackward ==
    [][ \A k \in 1 .. Len(objects) : \A j \in 1 .. Len(objects') :
          (objects'[j].id = objects[k].id /\ objects[k].active)
              => objects'[j].z >= objects[k].z
      ]_vars

\* After a level-up and a frame: the portal the level-up placed has advanced
\* and an entity kept through the level-up is still active and has advanced
C9_Witness ==
    /\ lastOp = "frame"
    /\ \E k \in 1 .. Len(objects) :
          /\ objects[k].type = "SHOP_PORTAL" /\ objects[k].active
          /\ objects[k].z > PORTAL_SPAWN_Z /\ objects[k].z < FarZ
    /\ \E k \in 1 .. Len(objects) :
          /\ objects[k].type # "SHOP_PORTAL" /\ objects[k].active
          /\ objects[k].z > NearZ

\* The entities the last frame's Spawning Logic pushed: the tail of the store
NewEntities ==
    {k \in 1 .. Len(objects) :
        k > Len(objects) - spawnInfo.count
        /\ objects[k].id >= nextId - spawnInfo.count
        /\ objects[k].active
        /\ objects[k].z <= -SPAWN_DISTANCE}

\* C10 (as the code has it): a Playing frame adds at least one new entity
\* exactly when furthestZ > -SPAWN_DISTANCE and either a letter is due or the
\* spawn draw (Math.random() > 0.1) succeeds; the new entities are the tail of
\* the store, at or beyond the spawn boundary.
C10_SpawnsWhenDueOrDrawn ==
    spawnInfo.ran
        => /\ (spawnInfo.count >= 1)
                <=> (spawnInfo.open /\ (spawnInfo.due \/ spawnInfo.roll))
           /\ lastOp = "frame" => Cardinality(NewEntities) = spawnInfo.count

\* C10 (as stated): every Playing frame with furthestZ > -SPAWN_DISTANCE adds
\* at least one new entity.
C10_AlwaysSpawnsWhenOpen ==
    (spawnInfo.ran /\ spawnInfo.open) => spawnInfo.count >= 1

\* An open road (furthestZ = -40 + the frame's advance), no letter due, the
\* draw succeeded: the frame pushed an obstacle and a gem above it
C10_Witness ==
    /\ lastOp = "frame"
    /\ frameCount = 1
    /\ spawnInfo.ran /\ spawnInfo.open /\ ~spawnInfo.due /\ spawnInfo.roll
    /\ spawnInfo.count = 2
    /\ Len(objects) = 3
    /\ objects[1].z > OpenZ
    /\ objects[2].type = "OBSTACLE" /\ objects[3].type = "GEM"
    /\ objects[2].z = -SPAWN_DISTANCE


\* The LETTER and GEM entities a frame's Spawning Logic pushed (ids from the
\* frame's first fresh id on, in the store after the frame)
SpawnedOfType(t) ==
    {k \in 1 .. Len(objects') :
        objects'[k].id >= nextId /\ objects'[k].type = t}

\* C11: a Playing frame whose letter-due branch runs (road open, letter due)
\* while all 6 indices are in collectedLetters pushes exactly one entity, a
\* GEM worth 50 points, and no LETTER; nextLetterDistance is left alone.
C11_ExhaustedPoolSpawnsGem ==
    [][ (/\ PlayingFrameStep
         /\ spawnInfo'.open /\ spawnInfo'.due
         /\ collectedLetters = AllLetters)
        => (/\ spawnInfo'.count = 1
            /\ SpawnedOfType("LETTER") = {}
            /\ Cardinality(SpawnedOfType("GEM")) = 1
            /\ objects'[Len(objects')].type = "GEM"
            /\ objects'[Len(objects')].active
            /\ objects'[Len(objects')].points = 50
            /\ nextLetterDistance' = nextLetterDistance)
      ]_vars

\* The first frame ran the letter-due branch with every index collected: the
\* one entity it pushed is a gem at the spawn boundary
C11_Witness ==
    /\ lastOp = "frame"
    /\ frameCount = 1
    /\ collectedLetters = AllLetters
    /\ spawnInfo.ran /\ spawnInfo.open /\ spawnInfo.due
    /\ spawnInfo.count = 1
    /\ Len(objects) = 1
    /\ objects[1].type = "GEM" /\ objects[1].z = -SPAWN_DISTANCE
    /\ distanceTraveled >= nextLetterDistance


\* C12: a LETTER pushed by a Playing frame never carries an index that is
\* collected at the moment of spawning, the indices collected by the collision
\* pass of the same frame included.
C12_NoCollectedLetterSpawned ==
    [][ PlayingFrameStep
        => \A k \in SpawnedOfType("LETTER") :
              objects'[k].targetIndex \notin collectedLetters'
      ]_vars


\* Levels the interval is compared over: below 1, and 1 .. MaxLevel
IntervalLevels == (-MaxLevel) .. MaxLevel

RECURSIVE IntPow(_, _)
IntPow(b, n) == IF n <= 0 THEN 1 ELSE b * IntPow(b, n - 1)

\* C13: the letter interval is BASE_LETTER_INTERVAL * 1.5^(level - 1) for
\* level >= 1: a frame that spawns a letter advances nextLetterDistance by
\* exactly that much; the interval strictly increases with the level, each
\* level's interval is 1.5 times the one before (so interval(2) = 1.5 *
\* interval(1)), and a level below 1 gives the interval of level 1.
C13_LetterInterval ==
    [][ /\ (PlayingFrameStep /\ SpawnedOfType("LETTER") # {})
            => (/\ nextLetterDistance' - nextLetterDistance
                      = getLetterInterval(level)
                /\ (nextLetterDistance' - nextLetterDistance)
                      * IntPow(2, level - 1)
                      = BASE_LETTER_INTERVAL * U * IntPow(3, level - 1))
        /\ \A l \in IntervalLevels :
              /\ l < 1 => getLetterInterval(l) = getLetterInterval(1)
              /\ l >= 1 =>
                    /\ getLetterInterval(l + 1) > getLetterInterval(l)
                    /\ 2 * getLetterInterval(l + 1) = 3 * getLetterInterval(l)
        /\ getLetterInterval(1) = BASE_LETTER_INTERVAL * U
        /\ 2 * getLetterInterval(2) = 3 * getLetterInterval(1)
      ]_vars

\* A frame at level 2 spawned a letter: the next letter is due 225 units
\* (1.5 * 150) after the one that was due
C13_Witness ==
    /\ lastOp = "frame"
    /\ frameCount = 1
    /\ level = 2
    /\ spawnInfo.due /\ spawnInfo.count = 1
    /\ objects[Len(objects)].type = "LETTER"
    /\ nextLetterDistance = InitDistance + 225 * U


\* o, an entity of the store before the frame, is an active portal whose z
\* after the frame's advance is within the trigger radius of the player's z
PortalInReach(o) ==
    /\ o.active
    /\ o.type = "SHOP_PORTAL"
    /\ Abs(o.z + MoveAmount(o, speed, StepDelta) - PoseAtTest.z) < PORTAL_RADIUS

\* C14: a Playing frame in which an active portal comes within the trigger
\* radius makes exactly one openShop call for it (and none for anything
\* else), removes it from the store and emits no hit or damage for it,
\* whatever the player's lane, x or height; the store enters the shop.
C14_PortalOpensShopOnce ==
    [][ PlayingFrameStep
        => /\ \A k \in 1 .. Len(objects) :
                PortalInReach(objects[k])
                  => (/\ CountNotes(events', "openShop", objects[k].id) = 1
                      /\ CountNotes(events', "player-hit", objects[k].id) = 0
                      /\ CountNotes(events', "takeDamage", objects[k].id) = 0
                      /\ \A j \in 1 .. Len(objects') :
                            objects'[j].id # objects[k].id
                      /\ status' = "SHOP")
           /\ CountKind(events', "openShop")
                = Cardinality({k \in 1 .. Len(objects) : PortalInReach(objects[k])})
           /\ \A j \in 1 .. Len(events') :
                events'[j].kind \in {"player-hit", "takeDamage"}
                  => \A k \in 1 .. Len(objects) :
                        objects[k].id = events'[j].id
                          => objects[k].type # "SHOP_PORTAL"
      ]_vars

\* The player, moved out of lane 0, reached the portal: the shop is open, one
\* openShop call was made and no portal is left in the store
C14_Witness ==
    /\ lastOp = "frame"
    /\ status = "SHOP"
    /\ lane # 0 /\ posX # 0
    /\ CountKind(events, "openShop") = 1
    /\ CountKind(events, "takeDamage") = 0
    /\ \A k \in 1 .. Len(objects) : objects[k].type # "SHOP_PORTAL"


Portals(objs) == {k \in 1 .. Len(objs) : objs[k].type = "SHOP_PORTAL"}

\* C15: in every reachable state the store holds at most one SHOP_PORTAL.
C15_AtMostOnePortal == Cardinality(Portals(objects)) <= 1

\* The portals a step added: portals of the store after the step whose id
\* did not exist before it
NewPortals == {k \in Portals(objects') : objects'[k].id >= nextId}

\* C16: a step adds a portal to the store exactly when the level changes to
\* a value > 1 while the status is and stays PLAYING, and then it adds exactly
\* one; frames, the Spawning Logic, resets, the shop return and a change of
\* the level to 1 add none.
C16_PortalPerLevelUp ==
    [][ IF status = "PLAYING" /\ status' = "PLAYING" /\ level' # level
           /\ level' > 1
        THEN Cardinality(NewPortals) = 1
        ELSE NewPortals = {}
      ]_vars

\* A second level-up of a run (to level 3): its portal is the last entity of
\* the store, at the portal spawn position
C16_Witness ==
    /\ lastOp = "levelup"
    /\ status = "PLAYING"
    /\ level = 3
    /\ Len(objects) >= 1
    /\ objects[Len(objects)].type = "SHOP_PORTAL"
    /\ objects[Len(objects)].id = nextId - 1
    /\ objects[Len(objects)].z = PORTAL_SPAWN_Z

\* C17: on every transition of the status into PLAYING from MENU, GAME_OVER
\* or VICTORY the store is empty after the transition; the restarts also
\* zero the distance traveled.
C17_StoreClearedOnStart ==
    [][ (status \in {"MENU", "GAME_OVER", "VICTORY"} /\ status' = "PLAYING")
        => (/\ objects' = <<>>
            /\ distanceTraveled' = 0
            /\ nextLetterDistance' = getLetterInterval(1))
      ]_vars

\* A restart after a run that had entities and had advanced: the store is
\* empty
C17_Witness ==
    /\ lastOp = "restart"
    /\ status = "PLAYING"
    /\ objects = <<>>
    /\ nextId > 1
    /\ frameCount >= 1
    /\ distanceTraveled = 0

\* C18: on every transition of the status into PLAYING from MENU, GAME_OVER
\* or VICTORY the player is grounded (height 0, velocityY 0, jumpsPerformed
\* 0) and in lane 0.
C18_PlayerResetOnStart ==
    [][ (status \in {"MENU", "GAME_OVER", "VICTORY"} /\ status' = "PLAYING")
        => (/\ ~isJumping' /\ posY' = 0 /\ velocityY' = 0
            /\ jumpsPerformed' = 0
            /\ lane' = 0)
      ]_vars


\* C19: a level-up during PLAYING to a level > 1 leaves in the store exactly
\* the previous entities with z > -80, in their order and with their fields,
\* followed by one new active SHOP_PORTAL at (0, 0, -100); the player's lane,
\* height, velocityY, jumpsPerformed and jump flag and the distance traveled
\* are unchanged.
C19_LevelUpPrunesAndAddsPortal ==
    [][ (status = "PLAYING" /\ status' = "PLAYING" /\ level' # level
            /\ level' > 1)
        => (/\ Len(objects') >= 1
            /\ SubSeq(objects', 1, Len(objects') - 1)
                  = SelectSeq(objects, LAMBDA o : o.z > -(80 * U))
            /\ LET q == objects'[Len(objects')]
               IN  /\ q.type = "SHOP_PORTAL" /\ q.active
                   /\ q.x = 0 /\ q.y = 0 /\ q.z = -(100 * U)
                   /\ \A k \in 1 .. Len(objects) : objects[k].id # q.id
            /\ UNCHANGED <<lane, posX, posY, velocityY, jumpsPerformed,
                           isJumping, distanceTraveled>>)
      ]_vars

\* A level-up while the player is in the air: the near obstacle is kept as
\* it was, the far one is pruned, the portal is last, the jump goes on
C19_Witness ==
    /\ lastOp = "levelup"
    /\ isJumping /\ posY > 0 /\ velocityY < 0 /\ jumpsPerformed = 1
    /\ distanceTraveled = InitDistance
    /\ Len(objects) = 2
    /\ objects[1] = GameObject(1, "OBSTACLE", 0, 0, NearZ)
    /\ objects[2].type = "SHOP_PORTAL" /\ objects[2].z = PORTAL_SPAWN_Z
    /\ nextId = 4


CollisionKinds == {"player-hit", "takeDamage", "collectGem", "collectLetter", "openShop"}

\* C20: a Playing frame that runs without a player reference (the object is
\* not attached and the frame does not find it) deactivates no entity and
\* emits no damage, collect or enter-shop notification.
C20_NoCollisionWithoutPlayer ==
    [][ (PlayingFrameStep /\ ~playerAttached')
        => (/\ \A j \in 1 .. Len(events') : events'[j].kind \notin CollisionKinds
            /\ \A k \in 1 .. Len(objects) : \A j \in 1 .. Len(objects') :
                  (objects'[j].id = objects[k].id /\ objects[k].active)
                      => objects'[j].active
            /\ status' = "PLAYING")
      ]_vars


\* What the entity loop of the step's frame iterated: every object it moved
\* and ran the collision block on
LoopAtStep == FrameLoop(PlayerAtTest, playerAttached', StepDelta, now')

\* The missiles a step's frame created
NewMissiles ==
    {j \in 1 .. Len(objects') :
        objects'[j].type = "MISSILE" /\ objects'[j].id >= nextId}

\* C21: a missile an alien creates during a Playing frame is one of the
\* entities that frame's loop iterates: it is collision-tested against the
\* player in the frame in which it is created.
C21_NewMissileTestedSameFrame ==
    [][ PlayingFrameStep
        => \A j \in NewMissiles :
              \E k \in 1 .. Len(LoopAtStep.mutated) :
                  LoopAtStep.mutated[k].id = objects'[j].id
      ]_vars


\* C22: every entity a Playing frame deactivates (damage hit, gem collect,
\* letter collect, portal entry) has exactly one particle-burst notification
\* in that frame.
C22_BurstPerDeactivation ==
    [][ PlayingFrameStep
        => \A k \in 1 .. Len(objects) :
              Deactivated(objects, LoopAtStep.mutated, objects[k].id)
                => CountNotes(events', "particle-burst", objects[k].id) = 1
      ]_vars


\* The aliens that fire in a step's frame: active, not fired before, and past
\* the fire threshold after this frame's advance
FiringAliens ==
    {k \in 1 .. Len(objects) :
        /\ objects[k].type = "ALIEN"
        /\ objects[k].active
        /\ ~objects[k].hasFired
        /\ LoopAtStep.mutated[k].z > ALIEN_FIRE_Z}

\* C23: in a Playing frame exactly the active aliens that have not fired and
\* are past the fire threshold create a missile, one each, and their hasFired
\* becomes true; hasFired is never reset, so an alien fires at most once; an
\* inactive or already fired alien creates nothing; and beyond these missiles
\* the only new entities are those of the Spawning Logic.
C23_AlienFiresOnce ==
    [][ PlayingFrameStep
        => /\ Cardinality(NewMissiles) = Cardinality(FiringAliens)
           /\ \A k \in 1 .. Len(objects) :
                 /\ k \in FiringAliens => LoopAtStep.mutated[k].hasFired
                 /\ objects[k].hasFired => LoopAtStep.mutated[k].hasFired
                 /\ k \notin FiringAliens
                      => LoopAtStep.mutated[k].hasFired = objects[k].hasFired
           /\ \A j \in 1 .. Len(objects') :
                 \A k \in 1 .. Len(objects) :
                    (objects'[j].id = objects[k].id /\ objects[k].hasFired)
                      => objects'[j].hasFired
           /\ \A j \in NewMissiles :
                 \E k \in FiringAliens :
                    objects'[j].z = LoopAtStep.mutated[k].z + 2 * U
           /\ Cardinality({j \in 1 .. Len(objects') : objects'[j].id >= nextId})
                = Cardinality(FiringAliens) + spawnInfo'.count
      ]_vars

\* An alien fired in the first frame and was iterated again in the second
\* frame: its missile has moved away from it and there is still only one
C23_Witness ==
    /\ lastOp = "frame"
    /\ frameCount = 2
    /\ Cardinality({j \in 1 .. Len(objects) : objects[j].type = "MISSILE"}) = 1
    /\ \E a \in 1 .. Len(objects) :
          /\ objects[a].type = "ALIEN"
          /\ objects[a].active
          /\ objects[a].hasFired
          /\ objects[a].z > ALIEN_FIRE_Z
          /\ \E m \in 1 .. Len(objects) :
                /\ objects[m].type = "MISSILE"
                /\ objects[m].z > objects[a].z + 2 * U


\* C24: a missile an alien fires is created with the alien's lane offset (x)
\* and the alien's height (y) at the moment of firing.
C24_MissileAtAlienLaneAndHeight ==
    [][ PlayingFrameStep
        => \A j \in NewMissiles :
              \E k \in FiringAliens :
                 /\ objects'[j].x = LoopAtStep.mutated[k].x
                 /\ objects'[j].y = LoopAtStep.mutated[k].y
      ]_vars


\* C25: no simulation step uses an unclamped frame delta: in a Playing frame
\* every entity advances by at most what the clamped delta allows, and while
\* the player is in the air the height changes by at most |velocityY| times
\* the clamp and verticalVelocity drops by at most GRAVITY times the clamp.
C25_EveryStepUsesClampedDelta ==
    [][ PlayingFrameStep
        => /\ \A k \in 1 .. Len(objects) :
                 LoopAtStep.mutated[k].z - objects[k].z
                    <= TruncDiv((speed + MISSILE_SPEED * V) * SAFE_DELTA_MS, 1000)
           /\ (isJumping /\ isJumping')
                 => /\ Abs(posY' - posY)
                        <= TruncDiv(Abs(velocityY) * SAFE_DELTA_MS, 1000)
                    /\ velocityY - velocityY' <= GRAVITY * SAFE_DELTA_MS
      ]_vars


\* The active non-portal entities that pass the player's forward coordinate
\* (z = 0) within a step's frame
CrossingEntities ==
    {k \in 1 .. Len(objects) :
        /\ objects[k].active
        /\ objects[k].type # "SHOP_PORTAL"
        /\ objects[k].z < PoseAtTest.z
        /\ LoopAtStep.mutated[k].z > PoseAtTest.z}

\* C26: no tunneling: whatever the step size, an active non-portal entity
\* that passes the player's forward coordinate within one Playing frame gets
\* the lane test of that frame: a damage source in the player's lane and
\* height band is hit-tested (one player-hit) and consumed, and a gem or
\* letter in lane and reach is collected.
C26_NoTunneling ==
    [][ (PlayingFrameStep /\ playerAttached')
        => \A k \in CrossingEntities :
              LET o == objects[k]
              IN  /\ (/\ isDamageSource(o)
                       /\ Abs(o.x - PoseAtTest.x) < LANE_HIT
                       /\ PoseAtTest.y < objTop(o)
                       /\ PoseAtTest.y + PLAYER_HEIGHT > objBottom(o))
                        => (/\ CountNotes(events', "player-hit", o.id) = 1
                            /\ ~LoopAtStep.mutated[k].active)
                  /\ (/\ ~isDamageSource(o)
                       /\ Abs(o.x - PoseAtTest.x) < LANE_HIT
                       /\ Abs(o.y - PoseAtTest.y) < COLLECT_DY)
                        => (/\ CountNotes(events', "particle-burst", o.id) = 1
                            /\ ~LoopAtStep.mutated[k].active)
      ]_vars

\* An obstacle went from z = -2.5 to z = 2.5 in one frame (5 units, more than
\* the 4-unit zone): it ends beyond the zone and the hit test has fired
C26_Witness ==
    /\ lastOp = "frame"
    /\ frameCount = 1
    /\ \E k \in 1 .. Len(objects) :
          /\ objects[k].type = "OBSTACLE"
          /\ ~objects[k].active
          /\ objects[k].z > zThreshold
          /\ CountNotes(events, "player-hit", objects[k].id) = 1


\* After a step's frame: the non-missile entities that were in the store
\* before the Spawning Logic ran, and the entities the Spawning Logic added
StaticKept ==
    {j \in 1 .. Len(objects') :
        objects'[j].id < nextId /\ objects'[j].type # "MISSILE"}

PolicySpawned ==
    {j \in 1 .. Len(objects') :
        objects'[j].id >= nextId /\ objects'[j].type # "MISSILE"}

\* The smallest z among StaticKept, -20 when there is none
FurthestStatic ==
    IF StaticKept = {} THEN DEFAULT_FURTHEST_Z
    ELSE objects'[CHOOSE j \in StaticKept :
                    \A i \in StaticKept : objects'[j].z <= objects'[i].z].z

\* C27: the Spawning Logic adds entities only in frames where
\* furthestZ > -SPAWN_DISTANCE, and every entity it adds has
\* z = min(furthestZ - minGap, -SPAWN_DISTANCE) with minGap = 12 + 0.4 * speed:
\* at or beyond the spawn boundary and at least minGap ahead of every
\* non-missile entity already in the store.
C27_SpawnCoordinate ==
    [][ PlayingFrameStep
        => LET gap == 12 * U + (speed * 4) \div 10
           IN  /\ PolicySpawned # {} => FurthestStatic > -SPAWN_DISTANCE
               /\ \A j \in PolicySpawned :
                     /\ objects'[j].z = Min(FurthestStatic - gap, -SPAWN_DISTANCE)
                     /\ objects'[j].z <= -SPAWN_DISTANCE
                     /\ \A i \in StaticKept :
                           objects'[j].z <= objects'[i].z - gap
      ]_vars

\* A frame spawned beyond the boundary because an older entity was less
\* than minGap in front of it
C27_Witness ==
    /\ lastOp = "frame"
    /\ spawnInfo.count > 0
    /\ \E j \in 1 .. Len(objects) :
          /\ objects[j].id >= nextId - spawnInfo.count
          /\ objects[j].z < -SPAWN_DISTANCE
          /\ \E i \in 1 .. Len(objects) :
                /\ objects[i].id < nextId - spawnInfo.count
                /\ objects[i].type # "MISSILE"
                /\ objects[i].z - objects[j].z = 12 * U + (speed * 4) \div 10


\* C28: furthestZ is computed over the non-missile entities only: whether the
\* Spawning Logic spawns in a Playing frame, and where, is decided by the
\* non-missile entities alone, whatever missiles the store holds, and a
\* store holding only missiles is treated like an empty store (furthestZ is
\* the near-field default -20).
C28_FurthestIgnoresMissiles ==
    [][ PlayingFrameStep
        => LET gap == 12 * U + (speed * 4) \div 10
           IN  /\ spawnInfo'.open <=> FurthestStatic > -SPAWN_DISTANCE
               /\ \A j \in PolicySpawned :
                     objects'[j].z = Min(FurthestStatic - gap, -SPAWN_DISTANCE)
               /\ StaticKept = {}
                     => /\ spawnInfo'.open
                        /\ \A j \in PolicySpawned :
                              objects'[j].z
                                = Min(DEFAULT_FURTHEST_Z - gap, -SPAWN_DISTANCE)
      ]_vars

\* The store held only missiles, one of them beyond the spawn boundary, and
\* the frame spawned at the coordinate of an empty store
C28_Witness ==
    /\ lastOp = "frame"
    /\ spawnInfo.count > 0
    /\ \A i \in 1 .. Len(objects) :
          objects[i].id < nextId - spawnInfo.count => objects[i].type = "MISSILE"
    /\ \E i \in 1 .. Len(objects) :
          /\ objects[i].type = "MISSILE"
          /\ objects[i].z < -SPAWN_DISTANCE
    /\ \E j \in 1 .. Len(objects) :
          /\ objects[j].id >= nextId - spawnInfo.count
          /\ objects[j].z = Min(DEFAULT_FURTHEST_Z - (12 * U + (speed * 4) \div 10),
                                -SPAWN_DISTANCE)


\* The letter is due in a step's frame: the distance after this frame's
\* advance has reached the threshold the frame started with
LetterDueAtStep == distanceTraveled' >= nextLetterDistance

C30_FallbackRepeats ==
    [][ (/\ PlayingFrameStep
         /\ LetterDueAtStep
         /\ collectedLetters = AllLetters)
        => (/\ nextLetterDistance' = nextLetterDistance
            /\ distanceTraveled' >= nextLetterDistance'
            /\ FurthestStatic > -SPAWN_DISTANCE
                  => /\ Cardinality(PolicySpawned) = 1
                     /\ \A j \in PolicySpawned :
                           /\ objects'[j].type = "GEM"
                           /\ objects'[j].points = 50
            /\ FurthestStatic <= -SPAWN_DISTANCE => PolicySpawned = {})
      ]_vars

\* Two frames in a row ran the fallback: the store holds the two gems they
\* pushed and the threshold has not moved
C30_Witness ==
    /\ lastOp = "frame"
    /\ frameCount = 2
    /\ collectedLetters = AllLetters
    /\ nextLetterDistance = InitDistance
    /\ distanceTraveled > nextLetterDistance
    /\ Len(objects) = 2
    /\ \A k \in 1 .. 2 :
          /\ objects[k].type = "GEM"
          /\ objects[k].points = 50
          /\ objects[k].z <= -(59 * U)
    /\ objects[2].z < objects[1].z


NoAlienOrMissile(objs) ==
    \A k \in 1 .. Len(objs) : objs[k].type \notin {"ALIEN", "MISSILE"}

\* C31: while level is 1 the Spawning Logic never spawns an ALIEN, so a
\* level-1 run never has an ALIEN or a MISSILE in the store: a Playing frame
\* at level 1 adds neither, and every step that ends at level 1 ends with a
\* store that holds neither.
C31_NoAlienAtLevelOne ==
    [][ /\ (PlayingFrameStep /\ level = 1)
            => (SpawnedOfType("ALIEN") = {} /\ NewMissiles = {})
        /\ level' = 1 => NoAlienOrMissile(objects')
      ]_vars

\* Two level-1 frames spawned from the obstacle family and the store holds
\* obstacles only
C31_Witness ==
    /\ level = 1
    /\ lastOp = "frame"
    /\ frameCount = 2
    /\ spawnInfo.open /\ ~spawnInfo.due /\ spawnInfo.count = 1
    /\ Len(objects) = 2
    /\ \A k \in 1 .. 2 : objects[k].type = "OBSTACLE" /\ objects[k].id = k


SimulationKinds ==
    {"player-hit", "takeDamage", "collectGem", "collectLetter", "openShop",
     "particle-burst"}

C33_CulledOnlyPastRemoveDistance ==
    [][ PlayingFrameStep
        => /\ \A j \in 1 .. Len(objects') : objects'[j].z <= REMOVE_DISTANCE
           /\ \A k \in 1 .. Len(objects) :
                 LET o == objects[k]
                     z1 == o.z + MoveAmount(o, speed, StepDelta)
                     here == {j \in 1 .. Len(objects') : objects'[j].id = o.id}
                 IN  /\ z1 > o.z
                     /\ (z1 > REMOVE_DISTANCE \/ PortalInReach(o)) => here = {}
                     /\ (z1 <= REMOVE_DISTANCE /\ ~PortalInReach(o))
                           => /\ Cardinality(here) = 1
                              /\ \A j \in here : objects'[j].z = z1
      ]_vars

\* The inactive obstacle has been culled while the missed gem, advanced by
\* the same frame, is still in the store below the threshold
C33_Witness ==
    /\ lastOp = "frame"
    /\ frameCount = 1
    /\ \A j \in 1 .. Len(objects) : objects[j].id # 1
    /\ \E j \in 1 .. Len(objects) :
          /\ objects[j].id = 2
          /\ objects[j].z > MissedGem.z
          /\ objects[j].z <= REMOVE_DISTANCE


InStore(i) == \E k \in 1 .. Len(objects) : objects[k].id = i

\* The ids a run from InitCull can give out
CullIds == 1 .. (3 + 2 * MaxCullFrames)

\* The smallest scroll distance of a frame
MinStep == TruncDiv(speed * 20, 1000)

\* The frames that remain carry entity i past REMOVE_DISTANCE even at the
\* smallest step
WithinReach(i) ==
    \E k \in 1 .. Len(objects) :
        /\ objects[k].id = i
        /\ objects[k].z + (limits.frames - frameCount) * MinStep > REMOVE_DISTANCE

IndexOf(objs, i) ==
    IF \E k \in 1 .. Len(objs) : objs[k].id = i
    THEN CHOOSE k \in 1 .. Len(objs) : objs[k].id = i
    ELSE 0

\* C35: every frame and every level-up (every step, in fact) keeps the
\* entities that survive it in their relative order and as the same
\* entities, and puts the entities it creates after all survivors, missiles
\* before spawns; no two entities of the store share an id.
C35_OrderPreserved ==
    [][ /\ \A j1, j2 \in 1 .. Len(objects') :
              LET a == objects'[j1]
                  b == objects'[j2]
              IN  /\ (j1 # j2) => a.id # b.id
                  /\ (j1 < j2 /\ a.id < nextId /\ b.id < nextId)
                        => (/\ IndexOf(objects, a.id) > 0
                            /\ IndexOf(objects, a.id) < IndexOf(objects, b.id))
                  /\ (a.id < nextId /\ b.id >= nextId) => j1 < j2
                  /\ (/\ a.id >= nextId /\ b.id >= nextId
                       /\ a.type = "MISSILE" /\ b.type # "MISSILE") => j1 < j2
        /\ \A j \in 1 .. Len(objects') :
              LET k == IndexOf(objects, objects'[j].id)
              IN  k > 0 => /\ objects'[j].type = objects[k].type
                           /\ objects'[j].x = objects[k].x
                           /\ objects'[j].y = objects[k].y
      ]_vars

\* A frame culled the oldest entity, kept the two behind it in order and put
\* the entity it spawned after them
C35_Witness ==
    /\ lastOp = "frame"
    /\ frameCount = 1
    /\ Len(objects) = 3
    /\ objects[1].id = 2 /\ objects[1].type = "GEM"
    /\ objects[2].id = 3 /\ objects[2].type = "OBSTACLE"
    /\ objects[3].id = 4 /\ objects[3].z <= -SPAWN_DISTANCE


\* A falling player at height y with velocity v <= 0 is on the ground within
\* n frames of the smallest delta (20 ms), the slowest way down
RECURSIVE LandsWithin(_, _, _)
LandsWithin(y, v, n) ==
    IF n = 0 THEN FALSE
    ELSE LET y1 == y + TruncDiv(v * 20, 1000)
         IN  y1 <= 0 \/ LandsWithin(y1, v - GRAVITY * 20, n - 1)

\* No further jump can be accepted in this airborne phase
NoJumpLeft ==
    jumpsPerformed >= MaxJumps(hasDoubleJump) \/ inputCount >= limits.inputs

Grounded == ~isJumping /\ posY = 0 /\ jumpsPerformed = 0 /\ velocityY = 0

\* A frame in PLAYING or SHOP with the player in the air lands the player or
\* lowers verticalVelocity by GRAVITY * delta
AirborneFrameProgress ==
    (/\ lastOp' = "frame" /\ frameCount' = frameCount + 1
     /\ status \in {"PLAYING", "SHOP"} /\ isJumping)
      => (\/ Grounded'
          \/ (/\ isJumping'
               /\ posY' > 0
               /\ velocityY' = velocityY - GRAVITY * StepDelta
               /\ jumpsPerformed' = jumpsPerformed))

\* A jump key in the air is accepted only below maxJumps
AirborneJumpBounded ==
    (lastOp' = "jump" /\ inputCount' = inputCount + 1 /\ isJumping)
      => (\/ (/\ jumpsPerformed < MaxJumps(hasDoubleJump)
               /\ jumpsPerformed' = jumpsPerformed + 1)
          \/ (/\ jumpsPerformed' = jumpsPerformed
               /\ velocityY' = velocityY))

IdsOf(objs) == [k \in 1 .. Len(objs) |-> objs[k].id]

\* C37: after every Playing frame the store is that frame's resulting
\* sequence, the survivors and new missiles followed by the new spawns:
\* a frame that drops or creates an entity flags a change, and a frame that
\* flags none and spawns nothing leaves in the store exactly the entities
\* of the resulting sequence, so no removal or creation is lost.
C37_StoreIsResultingSet ==
    [][ PlayingFrameStep
        => LET kept == LoopAtStep.kept
               n == Len(kept)
           IN  /\ Len(objects') = n + spawnInfo'.count
               /\ SubSeq(objects', 1, n) = kept
               /\ \A j \in (n + 1) .. Len(objects') : objects'[j].id >= nextId
               /\ IdsOf(kept) # IdsOf(objects) => LoopAtStep.changes
               /\ (~LoopAtStep.changes /\ spawnInfo'.count = 0)
                     => /\ IdsOf(objects') = IdsOf(objects)
                        /\ objects' = LoopAtStep.mutated
      ]_vars

\* A frame dropped the oldest entity and spawned nothing: the store holds
\* the two survivors only
C37_Witness ==
    /\ lastOp = "frame"
    /\ frameCount = 1
    /\ spawnInfo.ran /\ spawnInfo.count = 0
    /\ Len(objects) = 2
    /\ objects[1].id = 2 /\ objects[2].id = 3
    /\ objects[1].z > MissedGem.z


\* C38: at any time the store holds at most one active LETTER per letter
\* index.
C38_OneActiveLetterPerIndex ==
    \A k1, k2 \in 1 .. Len(objects) :
        (/\ k1 # k2
         /\ objects[k1].type = "LETTER" /\ objects[k1].active
         /\ objects[k2].type = "LETTER" /\ objects[k2].active)
          => objects[k1].targetIndex # objects[k2].targetIndex


\* C39: an active portal never passes the player without opening the shop:
\* whatever the frame's scroll distance, a Playing frame that takes an active
\* portal from in front of the player's z to behind it calls openShop for
\* it.
C39_PortalNeverPassed ==
    [][ PlayingFrameStep
        => \A k \in 1 .. Len(objects) :
              (/\ objects[k].type = "SHOP_PORTAL"
               /\ objects[k].active
               /\ objects[k].z < PoseAtTest.z
               /\ LoopAtStep.mutated[k].z > PoseAtTest.z)
                => CountNotes(events', "openShop", objects[k].id) = 1
      ]_vars

=============================================================================
